---- MODULE Spec2Model ----
(***************************************************************************)
(* A model of pyboost's Config resolution engine (src/src/pyboost/config.py *)
(* and src/src/pyboost/option.py): Config.get, Config.with_fallback,       *)
(* Config.resolve and the ${...} reference resolver.                        *)
(*                                                                         *)
(* Python values are tagged records, Python strings are sequences of       *)
(* one-character strings, a dict is a function from its keys to values.    *)
(* The alphabet of the strings the model draws is Alphabet below: what the *)
(* model says about int(), ast.literal_eval() and the regular expressions  *)
(* is what Python does on strings over that alphabet.                      *)
(***************************************************************************)
EXTENDS Integers, Sequences, FiniteSets, TLC

VARIABLES cfg, op, args, out

\* the subclass registry of one base class: the classes declared so far, the
\* instance cache of the base class, the constructor calls made so far and
\* the position of each thread inside find_subclass
VARIABLES subclasses, instances, constructed, threads

regvars == <<subclasses, instances, constructed, threads>>

vars == <<cfg, op, args, out, regvars>>

(***************************************************************************)
(* Python values                                                           *)
(***************************************************************************)
PyNone == [t |-> "none"]
PyBool(b) == [t |-> "bool", b |-> b]
PyInt(i) == [t |-> "int", i |-> i]
PyStr(s) == [t |-> "str", s |-> s]
PyList(l) == [t |-> "list", l |-> l]
PyDict(d) == [t |-> "dict", d |-> d]

EmptyDict == PyDict(<<>>)

\* isinstance(x, (Dict, List))
IsComposite(x) == x.t \in {"dict", "list"}

(***************************************************************************)
(* Outcomes of a call: a returned value or a raised exception.             *)
(***************************************************************************)
Return(v) == [ok |-> TRUE, v |-> v]
Raise(exc, msg, arg) == [ok |-> FALSE, exc |-> exc, msg |-> msg, arg |-> arg]

\* the messages of the ConfigException raised by the engine
\* the message naming only what follows the last dot of the key
NoConfigFound_last_segment(key) ==
    LET dots == {i \in 1..Len(key) : key[i] = "."}
    IN  Raise("ConfigException", "no config found for key",
              IF dots = {} THEN key
              ELSE SubSeq(key, (CHOOSE i \in dots : \A j \in dots : j <= i) + 1, Len(key)))
NoConfigFound(key) == Raise("ConfigException", "no config found for key", key)
\* an index outside the Sequence reported as a missing key
IndexOutOfRange_as_missing(path) == Raise("ConfigException", "no config found for key", path)
IndexOutOfRange(path) == Raise("ConfigException", "index out of range", path)
IllegalSlice(path) == Raise("ConfigException", "illegal slice", path)

(***************************************************************************)
(* Strings                                                                 *)
(***************************************************************************)
Digits == {"0", "1", "2", "3", "4", "5", "6", "7", "8", "9"}

DigitVal(c) ==
    CASE c = "0" -> 0 [] c = "1" -> 1 [] c = "2" -> 2 [] c = "3" -> 3
      [] c = "4" -> 4 [] c = "5" -> 5 [] c = "6" -> 6 [] c = "7" -> 7
      [] c = "8" -> 8 [] c = "9" -> 9

DigitChar(d) == <<"0", "1", "2", "3", "4", "5", "6", "7", "8", "9">>[d + 1]

\* s[i:] and s[:i] for 0 <= i (Python clamps at the length)
Drop(s, i) == SubSeq(s, i + 1, Len(s))
Take(s, i) == SubSeq(s, 1, IF i < Len(s) THEN i ELSE Len(s))

\* str.startswith / str.endswith
startswith(s, p) == Len(s) >= Len(p) /\ SubSeq(s, 1, Len(p)) = p
endswith(s, p) == Len(s) >= Len(p) /\ SubSeq(s, Len(s) - Len(p) + 1, Len(s)) = p

\* str.find(sub): the 0-based position of the first occurrence, -1 when absent
find(s, sub) ==
    LET hits == {i \in 0..(Len(s) - Len(sub)) : SubSeq(s, i + 1, i + Len(sub)) = sub}
    IN  IF hits = {} THEN -1 ELSE CHOOSE i \in hits : \A j \in hits : i <= j

\* str.split(sep) for a one-character separator: always at least one part
RECURSIVE split(_, _)
split(s, sep) ==
    LET pos == find(s, <<sep>>)
    IN  IF pos < 0 THEN <<s>>
        ELSE <<Take(s, pos)>> \o split(Drop(s, pos + 1), sep)

\* str.split(sep, 1)
split1(s, sep) ==
    LET pos == find(s, <<sep>>)
    IN  IF pos < 0 THEN <<s>> ELSE <<Take(s, pos), Drop(s, pos + 1)>>

\* key.replace('[', '.[')
RECURSIVE replace_bracket(_)
replace_bracket(s) ==
    IF s = <<>> THEN <<>>
    ELSE (IF Head(s) = "[" THEN <<".", "[">> ELSE <<Head(s)>>) \o replace_bracket(Tail(s))

\* int(x) succeeds on a string over Alphabet exactly when x is -?[0-9]+
IsInt(x) ==
    LET body == IF x # <<>> /\ Head(x) = "-" THEN Tail(x) ELSE x
    IN  body # <<>> /\ \A i \in 1..Len(body) : body[i] \in Digits

RECURSIVE NatOf(_)
NatOf(x) == IF x = <<>> THEN 0 ELSE 10 * NatOf(SubSeq(x, 1, Len(x) - 1)) + DigitVal(x[Len(x)])

\* int(x), for IsInt(x)
int(x) == IF Head(x) = "-" THEN 0 - NatOf(Tail(x)) ELSE NatOf(x)

\* str(i) of an int
RECURSIVE StrNat(_)
StrNat(n) == IF n < 10 THEN <<DigitChar(n)>> ELSE StrNat(n \div 10) \o <<DigitChar(n % 10)>>

StrInt(i) == IF i < 0 THEN <<"-">> \o StrNat(0 - i) ELSE StrNat(i)

(***************************************************************************)
(* Option (src/src/pyboost/option.py). An Option is modelled by the value  *)
(* it wraps; the empty Option wraps PyNone.                                  *)
(***************************************************************************)
Option_of_nullable(value) == value

Option_is_present(opt) == opt # PyNone

\* a bug: the fallback value is never used
Option_or_else_keeps_empty(opt, other) == opt

Option_or_else(opt, other) == IF Option_is_present(opt) THEN opt ELSE other

(***************************************************************************)
(* Config.get                                                              *)
(***************************************************************************)
\* re.match(r'^[-0-9]*:[-0-9]*:?[-0-9]*$', path)
IsSlicePattern(path) ==
    LET parts == split(path, ":")
    IN  /\ Len(parts) \in {2, 3}
        /\ \A i \in 1..Len(path) : path[i] \in Digits \cup {"-", ":"}

\* the indices root[slice(start, stop, step)] selects in a list of length n
\* (0-based, in order); a bound is <<i>>, or <<>> for None
RECURSIVE SliceIndicesFrom(_, _, _)
SliceIndicesFrom(i, stop, step) ==
    IF (step > 0 /\ i < stop) \/ (step < 0 /\ i > stop)
    THEN <<i>> \o SliceIndicesFrom(i + step, stop, step)
    ELSE <<>>

SliceIndices(n, start, stop, step) ==
    LET st == IF step = <<>> THEN 1 ELSE step[1]
        lower == IF st < 0 THEN -1 ELSE 0
        upper == IF st < 0 THEN n - 1 ELSE n
        clamp(b) == IF b < 0
                    THEN (IF b + n < lower THEN lower ELSE b + n)
                    ELSE (IF b > upper THEN upper ELSE b)
        s == IF start = <<>> THEN (IF st < 0 THEN upper ELSE lower) ELSE clamp(start[1])
        e == IF stop = <<>> THEN (IF st < 0 THEN lower ELSE upper) ELSE clamp(stop[1])
    IN  SliceIndicesFrom(s, e, st)

\* a bug: the null results are left out of the list
Collect_skips_null(results) ==
    LET bad == {i \in 1..Len(results) : ~results[i].ok}
    IN  IF bad = {}
        THEN Return(PyList(SelectSeq([i \in 1..Len(results) |-> results[i].v],
                                     LAMBDA v : v # PyNone)))
        ELSE results[CHOOSE i \in bad : \A j \in bad : i <= j]

\* the first exception among a list of outcomes, or the list of their values
Collect(results) ==
    LET bad == {i \in 1..Len(results) : ~results[i].ok}
    IN  IF bad = {} THEN Return(PyList([i \in 1..Len(results) |-> results[i].v]))
        ELSE results[CHOOSE i \in bad : \A j \in bad : i <= j]

RECURSIVE traverse(_, _, _)
traverse(root, nodes, key) ==
    LET \* [traverse(x, list(nodes)) for x in root[slice(*params)]]
        broadcast(idx, rest) ==
          Collect([i \in 1..Len(idx) |-> traverse(root.l[idx[i] + 1], rest, key)])
        \* params = [int(x) if x else None for x in parts]
        slice(inner, params, rest) ==
          IF params[3] = <<0>> THEN IllegalSlice(inner)
          ELSE broadcast(SliceIndices(Len(root.l), params[1], params[2], params[3]), rest)
        slice_params(inner, parts, rest) ==
          IF \E i \in 1..3 : parts[i] # <<>> /\ ~IsInt(parts[i])
          THEN IllegalSlice(inner)
          ELSE slice(inner,
                     [i \in 1..3 |-> IF parts[i] = <<>> THEN <<>> ELSE <<int(parts[i])>>],
                     rest)
        \* root[int(path)]
        index(inner, i, n, rest) ==
          IF i >= n \/ i < 0 - n THEN IndexOutOfRange(inner)
          ELSE traverse(root.l[(IF i < 0 THEN i + n ELSE i) + 1], rest, key)
        bracket(inner, rest) ==
          IF IsSlicePattern(inner) \/ inner = <<>>
          THEN slice_params(inner, SubSeq(split(inner \o <<":", ":", ":">>, ":"), 1, 3), rest)
          ELSE IF ~IsInt(inner) THEN IllegalSlice(inner)
          ELSE index(inner, int(inner), Len(root.l), rest)
        step(path, rest) ==
          IF root.t = "dict" /\ path \in DOMAIN root.d
          THEN traverse(root.d[path], rest, key)
          ELSE IF root.t = "list" /\ startswith(path, <<"[">>) /\ endswith(path, <<"]">>)
          THEN bracket(SubSeq(path, 2, Len(path) - 1), rest)
          ELSE NoConfigFound(key)
    IN  IF nodes = <<>> THEN Return(root)
        ELSE step(Head(nodes), Tail(nodes))

\* the default standing in for the null elements of a returned list as well
Config_get_default_each(root, key, default) ==
    LET each(v) ==
          IF v.t = "list"
          THEN PyList([i \in 1..Len(v.l) |-> Option_or_else(Option_of_nullable(v.l[i]), default)])
          ELSE Option_or_else(Option_of_nullable(v), default)
        or_else(found) == IF found.ok THEN Return(each(found.v)) ELSE found
    IN  or_else(traverse(root, split(replace_bracket(key), "."), key))

\* a bug: the default also stands in for a failed lookup
Config_get_default_on_failure(root, key, default) ==
    LET or_else(found) ==
          IF found.ok
          THEN Return(Option_or_else(Option_of_nullable(found.v), default))
          ELSE IF default = PyNone THEN found ELSE Return(default)
    IN  or_else(traverse(root, split(replace_bracket(key), "."), key))

\* Config.get(key, default); a call without default passes PyNone
Config_get(root, key, default) ==
    LET or_else(found) ==
          IF found.ok
          THEN Return(Option_or_else(Option_of_nullable(found.v), default))
          ELSE found
    IN  or_else(traverse(root, split(replace_bracket(key), "."), key))

(***************************************************************************)
(* Config.with_fallback                                                    *)
(***************************************************************************)
\* a bug: on a collision of two values that are not both maps, dict2 wins
RECURSIVE merge_dict2_wins(_, _, _)
merge_dict2_wins(dict1, dict2, use_dict2) ==
    LET keys == {key \in DOMAIN dict1 \cup DOMAIN dict2 :
                    key \in DOMAIN dict1 \/ use_dict2}
    IN  [key \in keys |->
           IF key \in DOMAIN dict1 /\ key \in DOMAIN dict2
           THEN IF dict1[key].t = "dict" /\ dict2[key].t = "dict"
                THEN PyDict(merge_dict2_wins(dict1[key].d, dict2[key].d, TRUE))
                ELSE dict2[key]
           ELSE IF key \in DOMAIN dict1 THEN dict1[key]
           ELSE dict2[key]]

\* a bug: use_dict2 is handed down to the nested maps
RECURSIVE merge_hands_down(_, _, _)
merge_hands_down(dict1, dict2, use_dict2) ==
    LET keys == {key \in DOMAIN dict1 \cup DOMAIN dict2 :
                    key \in DOMAIN dict1 \/ use_dict2}
    IN  [key \in keys |->
           IF key \in DOMAIN dict1 /\ key \in DOMAIN dict2
           THEN IF dict1[key].t = "dict" /\ dict2[key].t = "dict"
                THEN PyDict(merge_hands_down(dict1[key].d, dict2[key].d, use_dict2))
                ELSE dict1[key]
           ELSE IF key \in DOMAIN dict1 THEN dict1[key]
           ELSE dict2[key]]

\* a bug: a key of both maps is yielded only when both values are maps
RECURSIVE merge_drops_collision(_, _, _)
merge_drops_collision(dict1, dict2, use_dict2) ==
    LET keys == {key \in DOMAIN dict1 \cup DOMAIN dict2 :
                    /\ key \in DOMAIN dict1 \/ use_dict2
                    /\ (key \in DOMAIN dict1 /\ key \in DOMAIN dict2) =>
                          (dict1[key].t = "dict" /\ dict2[key].t = "dict")}
    IN  [key \in keys |->
           IF key \in DOMAIN dict1 /\ key \in DOMAIN dict2
           THEN PyDict(merge_drops_collision(dict1[key].d, dict2[key].d, TRUE))
           ELSE IF key \in DOMAIN dict1 THEN dict1[key]
           ELSE dict2[key]]

\* a bug: the keys of dict2 alone are yielded whatever use_dict2 is
RECURSIVE merge_always_fills(_, _, _)
merge_always_fills(dict1, dict2, use_dict2) ==
    [key \in DOMAIN dict1 \cup DOMAIN dict2 |->
       IF key \in DOMAIN dict1 /\ key \in DOMAIN dict2
       THEN IF dict1[key].t = "dict" /\ dict2[key].t = "dict"
            THEN PyDict(merge_always_fills(dict1[key].d, dict2[key].d, TRUE))
            ELSE dict1[key]
       ELSE IF key \in DOMAIN dict1 THEN dict1[key]
       ELSE dict2[key]]

\* merge(dict1, dict2, use_dict2), collected by dict(...)
RECURSIVE merge(_, _, _)
merge(dict1, dict2, use_dict2) ==
    LET keys == {key \in DOMAIN dict1 \cup DOMAIN dict2 :
                    key \in DOMAIN dict1 \/ use_dict2}
    IN  [key \in keys |->
           IF key \in DOMAIN dict1 /\ key \in DOMAIN dict2
           THEN IF dict1[key].t = "dict" /\ dict2[key].t = "dict"
                THEN PyDict(merge(dict1[key].d, dict2[key].d, TRUE))
                ELSE dict1[key]
           ELSE IF key \in DOMAIN dict1 THEN dict1[key]
           ELSE dict2[key]]

\* self.with_fallback(other, fill_missing), on the roots of the two Configs
with_fallback(root, other, fill_missing) == Return(PyDict(merge(root.d, other.d, fill_missing)))

(***************************************************************************)
(* ConfigFactory.default_load                                              *)
(***************************************************************************)
\* 'application'
Application == <<"a", "p", "p", "l", "i", "c", "a", "t", "i", "o", "n">>
\* ['json', 'yaml', 'ini', 'properties']
Extensions ==
    << <<"j", "s", "o", "n">>, <<"y", "a", "m", "l">>, <<"i", "n", "i">>,
       <<"p", "r", "o", "p", "e", "r", "t", "i", "e", "s">> >>
\* f'application.{extension}'
ApplicationFile(extension) == Application \o <<".">> \o extension

\* config.<item>: get(item), a Map wrapped in a Config again
Config_getattr(root, item) == Config_get(root, item, PyNone)

\* the loop over the extensions: load[path] is what ConfigFactory.load(path)
\* returns or raises. calls are the loads made so far; the loop returns the
\* first load that succeeds, passes over a ConfigException and a
\* FileNotFoundError, and lets any other exception out.
RECURSIVE default_candidates(_, _, _)
default_candidates(load, extensions, calls) ==
    IF extensions = <<>> THEN [calls |-> calls, done |-> FALSE]
    ELSE LET try(path) ==
               IF load[path].ok \/ load[path].exc \notin {"ConfigException", "FileNotFoundError"}
               THEN [calls |-> Append(calls, path), done |-> TRUE, outcome |-> load[path]]
               ELSE default_candidates(load, Tail(extensions), Append(calls, path))
         IN  try(ApplicationFile(Head(extensions)))

\* ConfigFactory.default_load(): arguments is the root of the Config that
\* ConfigFactory.arguments() returns, its config_file a string when given
default_load(arguments, load) ==
    LET from_arguments(calls, config_args) ==
          IF ~config_args.ok THEN [calls |-> calls, outcome |-> config_args]
          ELSE LET file(config_file) ==
                     IF ~config_file.ok THEN [calls |-> calls, outcome |-> config_file]
                     ELSE [calls |-> Append(calls, config_file.v.s),
                           outcome |-> load[config_file.v.s]]
               IN  file(Config_getattr(config_args.v, <<"c", "o", "n", "f", "i", "g", "_", "f", "i", "l", "e">>))
        after(loop) ==
          IF loop.done THEN [calls |-> loop.calls, outcome |-> loop.outcome]
          ELSE from_arguments(loop.calls, Config_getattr(arguments, <<"a", "r", "g", "s">>))
    IN  after(default_candidates(load, Extensions, <<>>))

(***************************************************************************)
(* str() and repr() of a value. A dict lists its keys in declaration       *)
(* order; the dicts of the model are declared in the order of KeyOrder.    *)
(***************************************************************************)
k_arr == <<"a", "r", "r">>
k_a == <<"a">>
k_b == <<"b">>
k_e == <<"e">>
k_f == <<"f">>
k_k == <<"k">>
k_y == <<"y">>
k_z == <<"z">>
\* a key with a dot in it
k_ky == <<"k", ".", "y">>

KeyOrder == <<k_e, k_arr, k_a, k_f, k_b, k_k, k_y, k_z, k_ky>>

\* the keys of a dict, in declaration order
keys(d) == SelectSeq(KeyOrder, LAMBDA key : key \in DOMAIN d)

RECURSIVE join(_, _)
join(sep, parts) ==
    IF parts = <<>> THEN <<>>
    ELSE IF Len(parts) = 1 THEN parts[1]
    ELSE parts[1] \o sep \o join(sep, Tail(parts))

s_None == <<"N", "o", "n", "e">>
s_True == <<"T", "r", "u", "e">>
s_False == <<"F", "a", "l", "s", "e">>

\* repr(x); the strings of the model hold no quote and no backslash
RECURSIVE repr(_)
repr(x) ==
    CASE x.t = "none" -> s_None
      [] x.t = "bool" -> (IF x.b THEN s_True ELSE s_False)
      [] x.t = "int" -> StrInt(x.i)
      [] x.t = "str" -> <<"'">> \o x.s \o <<"'">>
      [] x.t = "list" ->
           <<"[">> \o join(<<",", " ">>, [i \in 1..Len(x.l) |-> repr(x.l[i])]) \o <<"]">>
      [] x.t = "dict" ->
           LET ks == keys(x.d)
           IN  <<"{">>
               \o join(<<",", " ">>,
                       [i \in 1..Len(ks) |->
                          <<"'">> \o ks[i] \o <<"'", ":", " ">> \o repr(x.d[ks[i]])])
               \o <<"}">>

str(x) == IF x.t = "str" THEN x.s ELSE repr(x)

(***************************************************************************)
(* ast.literal_eval on the literals the model draws as defaults: None,     *)
(* True, False, a decimal integer with an optional sign, and a list of     *)
(* such literals. Any other string over the model's default strings is     *)
(* refused (ValueError or SyntaxError).                                    *)
(***************************************************************************)
NotALiteral == [ok |-> FALSE]

\* a decimal integer literal: no leading zero except in a number of zeros only
IsIntLiteral(x) ==
    /\ x # <<>>
    /\ \A i \in 1..Len(x) : x[i] \in Digits
    /\ (x[1] = "0" => \A i \in 1..Len(x) : x[i] = "0")

\* the parts of a list body between the commas that are outside nested brackets
RECURSIVE split_top(_, _, _)
split_top(s, level, cur) ==
    IF s = <<>> THEN <<cur>>
    ELSE IF Head(s) = "," /\ level = 0 THEN <<cur>> \o split_top(Tail(s), 0, <<>>)
    ELSE split_top(Tail(s),
                   IF Head(s) = "[" THEN level + 1
                   ELSE IF Head(s) = "]" THEN level - 1 ELSE level,
                   Append(cur, Head(s)))

RECURSIVE literal_eval(_)
literal_eval(x) ==
    IF x = s_None THEN Return(PyNone)
    ELSE IF x = s_True THEN Return(PyBool(TRUE))
    ELSE IF x = s_False THEN Return(PyBool(FALSE))
    ELSE IF IsIntLiteral(x) THEN Return(PyInt(NatOf(x)))
    ELSE IF x # <<>> /\ Head(x) \in {"-"} /\ IsIntLiteral(Tail(x))
    THEN Return(PyInt(0 - NatOf(Tail(x))))
    ELSE IF Len(x) >= 2 /\ Head(x) = "[" /\ x[Len(x)] = "]"
    THEN
      LET body == SubSeq(x, 2, Len(x) - 1)
          parts == split_top(body, 0, <<>>)
          \* a trailing comma is allowed after at least one element
          elems == IF Len(parts) > 1 /\ parts[Len(parts)] = <<>>
                   THEN SubSeq(parts, 1, Len(parts) - 1) ELSE parts
          vals == [i \in 1..Len(elems) |-> literal_eval(elems[i])]
      IN  IF body = <<>> THEN Return(PyList(<<>>))
          ELSE IF \A i \in 1..Len(elems) : vals[i].ok
          THEN Return(PyList([i \in 1..Len(elems) |-> vals[i].v]))
          ELSE NotALiteral
    ELSE NotALiteral

(***************************************************************************)
(* ConfigValueReferenceResolver                                            *)
(***************************************************************************)
\* test: '${' in x and '}' in x and x.index('${') < x.index('}')
test(x) ==
    LET open == find(x, <<"$", "{">>)
        close == find(x, <<"}">>)
    IN  open >= 0 /\ close >= 0 /\ open < close

\* a bug: a later candidate that is found overrides an earlier one
get_last_wins(root, expr) ==
    LET or_literal(text, literal) ==
          IF literal.ok THEN Return(literal.v) ELSE Return(PyStr(text))
        pick(path_default, values, found) ==
          IF found # {} THEN values[CHOOSE i \in found : \A j \in found : i >= j]
          ELSE IF Len(path_default) = 1 THEN values[Len(values)]
          ELSE or_literal(path_default[2], literal_eval(path_default[2]))
        try(path_default, values) ==
          pick(path_default, values, {i \in 1..Len(values) : values[i].ok})
        chain(parts, path_default) ==
          try(path_default,
              [i \in 1..Len(parts) |->
                 Config_get(root, IF i < Len(parts) THEN parts[i] ELSE path_default[1], PyNone)])
        candidates(parts) == chain(parts, split1(parts[Len(parts)], "?"))
    IN  candidates(split(expr, "|"))

\* a bug: a reference without default that finds nothing yields null
get_swallows(root, expr) ==
    LET or_literal(text, literal) ==
          IF literal.ok THEN Return(literal.v) ELSE Return(PyStr(text))
        pick(path_default, values, found) ==
          IF found # {} THEN values[CHOOSE i \in found : \A j \in found : i <= j]
          ELSE IF Len(path_default) = 1 THEN Return(PyNone)
          ELSE or_literal(path_default[2], literal_eval(path_default[2]))
        try(path_default, values) ==
          pick(path_default, values, {i \in 1..Len(values) : values[i].ok})
        chain(parts, path_default) ==
          try(path_default,
              [i \in 1..Len(parts) |->
                 Config_get(root, IF i < Len(parts) THEN parts[i] ELSE path_default[1], PyNone)])
        candidates(parts) == chain(parts, split1(parts[Len(parts)], "?"))
    IN  candidates(split(expr, "|"))

\* get(expr): the fallback chain of one reference. values are the outcomes of
\* config.get on the candidates in turn, the last of them on the path before
\* the ?; the first that does not raise is returned.
get(root, expr) ==
    LET or_literal(text, literal) ==
          IF literal.ok THEN Return(literal.v) ELSE Return(PyStr(text))
        pick(path_default, values, found) ==
          IF found # {} THEN values[CHOOSE i \in found : \A j \in found : i <= j]
          ELSE IF Len(path_default) = 1 THEN values[Len(values)]
          ELSE or_literal(path_default[2], literal_eval(path_default[2]))
        try(path_default, values) ==
          pick(path_default, values, {i \in 1..Len(values) : values[i].ok})
        chain(parts, path_default) ==
          try(path_default,
              [i \in 1..Len(parts) |->
                 Config_get(root, IF i < Len(parts) THEN parts[i] ELSE path_default[1], PyNone)])
        candidates(parts) == chain(parts, split1(parts[Len(parts)], "?"))
    IN  candidates(split(expr, "|"))

BadSubstitution(string) ==
    Raise("ConfigException", "bad substitution variable reference", string)
CompositeSubstitution == Raise("ConfigException", "can not substitute composite type", <<>>)
\* next() on a generator that has ended
StopIteration == Raise("StopIteration", "", <<>>)
\* the call never returns and never raises
Hang == Raise("", "never returns", <<>>)

\* a bug: the escape $$ is yielded as it stands
parse_keeps_escape(root, string) ==
    LET yield_get(value, close) ==
          IF value.ok
          THEN [k |-> "item", v |-> value.v, rest |-> Drop(string, close + 1)]
          ELSE [k |-> "raise", e |-> value]
        match(close) ==
          IF close < 3 THEN [k |-> "raise", e |-> BadSubstitution(string)]
          ELSE yield_get(get(root, SubSeq(string, 3, close)), close)
        at_dollar(chr) ==
          IF chr = <<"$">>
          THEN [k |-> "item", v |-> PyStr(<<"$", "$">>), rest |-> Drop(string, 2)]
          ELSE IF chr = <<"{">> THEN match(find(string, <<"}">>))
          ELSE [k |-> "hang"]
        scan(pos) ==
          IF pos < 0 THEN [k |-> "item", v |-> PyStr(string), rest |-> <<>>]
          ELSE IF pos > 0
          THEN [k |-> "item", v |-> PyStr(Take(string, pos)), rest |-> Drop(string, pos)]
          ELSE at_dollar(Take(Drop(string, 1), 1))
    IN  IF string = <<>> THEN [k |-> "stop"]
        ELSE scan(find(string, <<"$">>))

\* One step of the generator parse(string): the item it yields next and the
\* string it goes on with, its end, the exception it raises, or "hang" when
\* its loop spins without yielding.
parse(root, string) ==
    LET yield_get(value, close) ==
          IF value.ok
          THEN [k |-> "item", v |-> value.v, rest |-> Drop(string, close + 1)]
          ELSE [k |-> "raise", e |-> value]
        \* ref_key.match(string): \$\{([^}]+)}, close the place of the first }
        match(close) ==
          IF close < 3 THEN [k |-> "raise", e |-> BadSubstitution(string)]
          ELSE yield_get(get(root, SubSeq(string, 3, close)), close)
        at_dollar(chr) ==
          IF chr = <<"$">>
          THEN [k |-> "item", v |-> PyStr(<<"$">>), rest |-> Drop(string, 2)]
          ELSE IF chr = <<"{">> THEN match(find(string, <<"}">>))
          ELSE [k |-> "hang"]
        scan(pos) ==
          IF pos < 0 THEN [k |-> "item", v |-> PyStr(string), rest |-> <<>>]
          ELSE IF pos > 0
          THEN [k |-> "item", v |-> PyStr(Take(string, pos)), rest |-> Drop(string, pos)]
          ELSE at_dollar(Take(Drop(string, 1), 1))
    IN  IF string = <<>> THEN [k |-> "stop"]
        ELSE scan(find(string, <<"$">>))

\* the loop `for item in itr` of resolve, from the string parse is left with
RECURSIVE concat(_, _, _)
concat(root, string, result) ==
    LET next(item) ==
          CASE item.k = "stop" -> Return(result)
            [] item.k = "hang" -> Hang
            [] item.k = "raise" -> item.e
            [] item.k = "item" ->
                 IF IsComposite(item.v) THEN CompositeSubstitution
                 ELSE concat(root, item.rest, PyStr(str(result) \o str(item.v)))
    IN  next(parse(root, string))

\* a bug: the result is always made a string
resolve_always_str(root, key, value) ==
    LET next(first) ==
          CASE first.k = "stop" -> StopIteration
            [] first.k = "hang" -> Hang
            [] first.k = "raise" -> first.e
            [] first.k = "item" -> concat(root, first.rest, PyStr(str(first.v)))
    IN  next(parse(root, value))

\* ConfigValueReferenceResolver.resolve(config, key, value)
resolve(root, key, value) ==
    LET next(first) ==
          CASE first.k = "stop" -> StopIteration
            [] first.k = "hang" -> Hang
            [] first.k = "raise" -> first.e
            [] first.k = "item" -> concat(root, first.rest, first.v)
    IN  next(parse(root, value))

(***************************************************************************)
(* Config.resolve                                                          *)
(***************************************************************************)
\* the deepest nesting of traversal calls the interpreter's stack allows
RecursionLimit == 6

RecursionError == Raise("RecursionError", "maximum recursion depth exceeded", <<>>)

\* ConfigValueResolver.find_subclass(node): the reference resolver is the one
\* registered value resolver; "" stands for the empty Option
find_subclass(node) == IF test(node) THEN "ConfigValueReferenceResolver" ELSE ""

\* the dict of the outcomes of its entries, or the first exception in key order
CollectDict(ks, results) ==
    LET bad == {i \in 1..Len(ks) : ~results[ks[i]].ok}
    IN  IF bad = {} THEN Return(PyDict([key \in DOMAIN results |-> results[key].v]))
        ELSE results[ks[CHOOSE i \in bad : \A j \in bad : i <= j]]

\* the resolver's output taken as it is, without going through the leaf logic
\* again
RECURSIVE traversal_once(_, _, _, _)
traversal_once(root, path, node, depth) ==
    IF depth > RecursionLimit THEN RecursionError
    ELSE
      CASE node.t = "str" ->
             LET or_else(mapped) ==
                   IF ~mapped.ok THEN mapped
                   ELSE Return(Option_or_else(Option_of_nullable(mapped.v), node))
             IN  IF find_subclass(node.s) = "" THEN Return(node)
                 ELSE or_else(resolve(root, Drop(path, 1), node.s))
        [] node.t = "dict" ->
             CollectDict(keys(node.d),
                         [key \in DOMAIN node.d |->
                            traversal_once(root, path \o key, node.d[key], depth + 1)])
        [] node.t = "list" ->
             Collect([i \in 1..Len(node.l) |->
                        traversal_once(root, path \o <<"[">> \o StrInt(i - 1) \o <<"]">>,
                                       node.l[i], depth + 1)])
        [] OTHER -> Return(node)

RECURSIVE traversal(_, _, _, _)
traversal(root, path, node, depth) ==
    IF depth > RecursionLimit THEN RecursionError
    ELSE
      CASE node.t = "str" ->
             LET or_else(mapped) ==
                   IF ~mapped.ok THEN mapped
                   ELSE Return(Option_or_else(Option_of_nullable(mapped.v), node))
                 map(resolved) ==
                   IF ~resolved.ok THEN resolved
                   ELSE or_else(traversal(root, path, resolved.v, depth + 1))
             IN  IF find_subclass(node.s) = "" THEN Return(node)
                 ELSE map(resolve(root, Drop(path, 1), node.s))
        [] node.t = "dict" ->
             CollectDict(keys(node.d),
                         [key \in DOMAIN node.d |->
                            traversal(root, path \o key, node.d[key], depth + 1)])
        [] node.t = "list" ->
             Collect([i \in 1..Len(node.l) |->
                        traversal(root, path \o <<"[">> \o StrInt(i - 1) \o <<"]">>,
                                  node.l[i], depth + 1)])
        [] OTHER -> Return(node)

\* Config.resolve(): the root of the new Config
Config_resolve(root) == traversal(root, <<".">>, root, 0)

(***************************************************************************)
(* Config.__iter__: the flattened keys                                     *)
(***************************************************************************)
\* dict.items(), and the (f'[{i}]', item) pairs made from enumerate(list)
items(d) == [n \in 1..Len(keys(d)) |-> <<keys(d)[n], d[keys(d)[n]]>>]
enumerated(l) == [n \in 1..Len(l) |-> <<<<"[">> \o StrInt(n - 1) \o <<"]">>, l[n]>>]

\* the generator yielding a node's keys after those of its descendants
RECURSIVE iter_traversal_children_first(_, _)
iter_traversal_children_first(path, nodes) ==
    IF nodes = <<>> THEN <<>>
    ELSE LET key == nodes[1][1]
             value == nodes[1][2]
         IN  (IF value.t = "dict"
              THEN iter_traversal_children_first(path \o key \o <<".">>, items(value.d))
              ELSE <<>>)
             \o (IF value.t = "list"
                 THEN iter_traversal_children_first(path \o key, enumerated(value.l))
                 ELSE <<>>)
             \o <<path \o key>>
             \o iter_traversal_children_first(path, Tail(nodes))

\* the generator traversal(path, nodes) of __iter__, as the list of what it
\* yields
RECURSIVE iter_traversal(_, _)
iter_traversal(path, nodes) ==
    IF nodes = <<>> THEN <<>>
    ELSE LET key == nodes[1][1]
             value == nodes[1][2]
         IN  <<path \o key>>
             \o (IF value.t = "dict"
                 THEN iter_traversal(path \o key \o <<".">>, items(value.d))
                 ELSE <<>>)
             \o (IF value.t = "list"
                 THEN iter_traversal(path \o key, enumerated(value.l))
                 ELSE <<>>)
             \o iter_traversal(path, Tail(nodes))

\* list(iter(config))
Config_iter(root) == iter_traversal(<<>>, items(root.d))

(***************************************************************************)
(* The inputs the model draws                                              *)
(***************************************************************************)
\* the longest list of a drawn Config
MaxLen == 2
\* the largest index magnitude of a drawn [i] step
MaxIndex == 3
\* the most parts (texts, escapes, references) of a drawn string leaf
MaxParts == 2

\* all sequences over S of length at most n
RECURSIVE SeqsUpTo(_, _)
SeqsUpTo(S, n) ==
    IF n = 0 THEN {<<>>}
    ELSE LET shorter == SeqsUpTo(S, n - 1)
         IN  shorter \cup {Append(s, x) : s \in {t \in shorter : Len(t) = n - 1}, x \in S}

\* one-key and two-key dicts, and all dicts with keys in K and values in V
Dict1(k1, v1) == PyDict([key \in {k1} |-> v1])
Dict2(k1, v1, k2, v2) == PyDict([key \in {k1, k2} |-> IF key = k1 THEN v1 ELSE v2])
DictsOver(K, V) == {PyDict(d) : d \in UNION {[S -> V] : S \in SUBSET K}}

\* ---- Config.get ----
\* the elements of the drawn lists: maps with and without k, a null k, a scalar, a list
GetElems ==
    { Dict1(k_k, PyInt(1)), Dict1(k_k, PyNone), Dict1(k_a, PyInt(2)), PyInt(7),
      PyList(<<Dict1(k_k, PyInt(3))>>) }

GetConfigs ==
    { Dict2(k_arr, PyList(l), k_a, v) :
        l \in SeqsUpTo(GetElems, MaxLen),
        v \in {PyInt(5), Dict1(k_k, PyNone)} }

\* the contents of a bracket step: indices, slices, and malformed ones
Inners ==
    {StrInt(i) : i \in (0 - MaxIndex)..MaxIndex}
    \cup { <<>>, <<":">>, <<"1", ":">>, <<":", "1">>, <<":", "-", "1">>,
           <<":", ":", "-", "1">>, <<":", ":", "2">>, <<"-", "2", ":", ":", "-", "1">>,
           <<"1", ":", "9">>, <<":", ":", "0">>, <<"-", ":">>, <<"i">>,
           <<"1", ":", "2", ":", "1", ":", "1">> }

Bracket(inner) == <<"[">> \o inner \o <<"]">>
Field(name) == <<".">> \o name

\* the remaining steps after a bracket step
Rests == {<<>>, Field(k_k), Bracket(<<"0">>) \o Field(k_k), Bracket(<<>>) \o Field(k_k)}

GetKeys ==
    { k_a, k_z, k_arr, k_a \o Field(k_k), k_a \o Field(k_z), k_a \o Bracket(<<"0">>),
      k_arr \o Field(k_k), <<>> }
    \cup {k_arr \o Bracket(inner) \o rest : inner \in Inners, rest \in {<<>>, Field(k_k)}}
    \cup {k_arr \o Bracket(inner) \o rest : inner \in {<<"0">>, <<":">>, <<>>}, rest \in Rests}

GetDefaults == {PyNone, PyInt(9)}

\* ---- Config.with_fallback ----
\* the values of self hold 1 and those of other hold 2, so that a merged value
\* tells which side it came from
MergeValues(n) ==
    {PyNone, PyInt(n), PyList(<<PyInt(n)>>)}
    \cup DictsOver({k_k, k_y}, {PyNone, PyInt(n), Dict1(k_k, PyInt(n)), Dict1(k_y, PyInt(n))})

MergeRoots(n) ==
    DictsOver({k_a}, MergeValues(n))
    \cup {Dict2(k_a, v, k_b, PyInt(n)) : v \in MergeValues(n)}
    \cup {Dict1(k_b, PyInt(n))}

\* the Configs of a chain of fallbacks: under a, scalars, a null and Maps
\* nested two deep whose inner Maps differ in their keys
ChainValues(n) ==
    {PyNone, PyInt(n)}
    \cup DictsOver({k_k, k_y}, {PyInt(n), Dict1(k_k, PyInt(n)), Dict1(k_y, PyInt(n))})
ChainRoots(n) == DictsOver({k_a}, ChainValues(n))

\* ---- Config.resolve ----
Ref(expr) == <<"$", "{">> \o expr \o <<"}">>
Or(p, q) == p \o <<"|">> \o q
Default(p, d) == p \o <<"?">> \o d

\* the bodies of the drawn references: paths, fallback chains and defaults
Exprs ==
    { k_f, k_b, k_z, k_f \o Field(k_k), k_f \o Bracket(<<"0">>), k_f \o Bracket(<<>>),
      k_f \o Bracket(<<"9">>), k_f \o Bracket(<<"i">>),
      Or(k_f, k_b), Or(k_z, k_b), Or(k_z, k_y), Or(k_f, k_z), Or(Or(k_z, k_y), k_b),
      Or(Or(k_z, k_f), k_b), Or(k_f \o Field(k_k), k_b),
      Default(k_z, <<"1">>), Default(k_z, <<>>), Default(k_z, k_b), Default(k_f, <<"1">>),
      Default(k_b, k_f), Default(k_z, s_None), Default(k_z, s_True),
      Default(k_z, <<"-", "1", "2">>), Default(k_z, <<"[", "1", ",", "2", "]">>),
      Default(k_z, <<"0", "1">>), Default(k_z, <<"a", "-">>), Default(k_z, <<"$", "{", "b">>),
      Default(k_z, <<"{", "}">>), Default(k_z, Ref(k_b)),
      Default(Or(k_z, k_y), s_False), Default(Or(k_z, k_b), <<"1">>),
      Default(Or(k_f, k_z), <<"1">>),
      Or(k_f \o Bracket(<<"9">>), k_b), Or(k_f \o Bracket(<<"i">>), k_b),
      Default(k_f \o Bracket(<<"9">>), <<"1">>) }

\* the parts of the drawn mixed leaves
Parts ==
    { <<"a", "-">>, <<"$", "$">>, <<"$">>, <<"{", "f", "}">>, Ref(k_f), Ref(k_b), Ref(k_z),
      Ref(Default(k_z, <<"1">>)) }

RECURSIVE Flatten(_)
Flatten(ss) == IF ss = <<>> THEN <<>> ELSE Head(ss) \o Flatten(Tail(ss))

Leaves ==
    {Ref(expr) : expr \in Exprs} \cup {Flatten(ps) : ps \in SeqsUpTo(Parts, MaxParts)}

\* what the references point at: nothing, null, scalars, strings to resolve
\* again, a Sequence and a Map
Targets ==
    { PyNone, PyInt(1), PyBool(TRUE), PyStr(<<"x">>), PyStr(<<"$">>), PyStr(Ref(k_b)),
      PyList(<<PyInt(1), PyStr(Ref(k_b))>>), Dict1(k_k, PyInt(1)) }

WithEntry(d, key, vs) == {d} \cup {[k2 \in DOMAIN d \cup {key} |-> IF k2 = key THEN v ELSE d[k2]] : v \in vs}

ResolveConfigs ==
    { PyDict(d) :
        d \in UNION { UNION { WithEntry(df, k_b, {PyInt(5), PyStr(Ref(k_f))}) :
                                df \in WithEntry([key \in {k_e} |-> PyStr(leaf)], k_f, Targets) } :
                      leaf \in Leaves } }

\* ---- the $$ escape ----
Escaped(expr) == <<"$">> \o Ref(expr)

\* the Configs of ResolveConfigs whose leaf e is an escaped reference
EscapeConfigs ==
    { PyDict(d) :
        d \in UNION { UNION { WithEntry(df, k_b, {PyInt(5), PyStr(Ref(k_f))}) :
                                df \in WithEntry([key \in {k_e} |-> PyStr(Escaped(expr))],
                                                 k_f, Targets) } :
                      expr \in Exprs } }

\* ---- ConfigFactory.default_load ----
\* the file named on the command line
ConfigFile == <<"s", "3", ":", "/", "/", "b", "/", "c", ".", "j", "s", "o", "n">>
\* what ConfigFactory.arguments() returns: --args.config_file given or not
ArgumentConfigs ==
    { PyDict([key \in {<<"a", "r", "g", "s">>} |-> fileargs]) :
        fileargs \in { EmptyDict,
                       PyDict([key \in {<<"c", "o", "n", "f", "i", "g", "_", "f", "i", "l", "e">>}
                                 |-> PyStr(ConfigFile)]) } }
\* the paths that load may be called with
LoadPaths == {ApplicationFile(Extensions[n]) : n \in 1..Len(Extensions)} \cup {ConfigFile}
\* what load does with a path: it returns the Config of the file, or the file
\* is missing, or is not a configuration, or the load fails in another way
LoadOutcomes(path) ==
    { Return(Dict1(k_f, PyStr(path))),
      Raise("FileNotFoundError", "", path),
      Raise("ConfigException", "no format parser found for file", path),
      Raise("ValueError", "", path) }
LoadWorlds == {load \in [LoadPaths -> UNION {LoadOutcomes(path) : path \in LoadPaths}] :
                  \A path \in LoadPaths : load[path] \in LoadOutcomes(path)}

(***************************************************************************)
(* The state machine: a Config (cfg, its root) and the calls made on it.   *)
(* A Config is immutable: a call leaves cfg as it is and returns a value,  *)
(* a new Config or an exception. op names the call in progress, args its   *)
(* arguments and out its outcome; Discard drops the outcome, after which   *)
(* the next call is made.                                                  *)
(***************************************************************************)
Idle ==
    /\ op = "new"
    /\ args = <<>>
    /\ out = Return(PyNone)

(***************************************************************************)
(* _SubclassRegistryMeta: the registry of the subclasses of a base class   *)
(***************************************************************************)
\* A class is a record: its name, its `priority` attribute (<<>> when the
\* class declares none) and its `test` predicate, named by what it accepts.
DefaultPriority == 100

\* getattr(x, 'priority', 100)
priority(c) == IF c.priority = <<>> THEN DefaultPriority ELSE c.priority[1]

\* subclass.test(x)
accepts(c, x) ==
    CASE c.test = "always" -> TRUE
      [] c.test = "s3" -> startswith(x, <<"s", "3", ":", "/", "/">>)

\* sorted(..., key=priority): Python's sort is stable, an element goes after
\* every element whose key is not greater
insort(s, c) ==
    LET n == Cardinality({i \in 1..Len(s) : priority(s[i]) <= priority(c)})
    IN  SubSeq(s, 1, n) \o <<c>> \o SubSeq(s, n + 1, Len(s))

sorted_by_declaration(subs) == subs

RECURSIVE sorted(_)
sorted(subs) ==
    IF subs = <<>> THEN <<>>
    ELSE insort(sorted(SubSeq(subs, 1, Len(subs) - 1)), subs[Len(subs)])

\* the for loop of find_subclass: the first class of the sorted list whose
\* test accepts the arguments, <<>> when the loop ends without a match
first_accepting(subs, x) ==
    LET hits == {i \in 1..Len(subs) : accepts(subs[i], x)}
    IN  IF hits = {} THEN <<>>
        ELSE <<subs[CHOOSE i \in hits : \A j \in hits : i <= j]>>

\* dict.setdefault(key, value)
setdefault(d, key, value) ==
    IF key \in DOMAIN d THEN d ELSE [k \in DOMAIN d \cup {key} |-> IF k = key THEN value ELSE d[k]]

\* an instance is named by the serial number of the constructor call that
\* made it; its class is the class that call constructed
type(obj) == constructed[obj].name

\* __init__ of a class can fail when it reaches outside the process:
\* S3ConfigReader.__init__ builds a boto3 resource
CanFail(c) == c.name = "S3ConfigReader"

ConstructionFailed == Raise("Exception", "constructor failed", <<>>)

\* a constructor whose failure is swallowed, leaving the half-built instance
new_instance_swallows(serial, fails) == Return(serial)

\* subclass(): the new instance, named by the serial number of the call, or
\* the exception __init__ raised
new_instance(serial, fails) == IF fails THEN ConstructionFailed ELSE Return(serial)

\* ---- the classes of the model ----
LocalFileConfigReader == [name |-> "LocalFileConfigReader", priority |-> <<200>>, test |-> "always"]
S3ConfigReader == [name |-> "S3ConfigReader", priority |-> <<>>, test |-> "s3"]

\* readers an application declares itself
UserReaders ==
    {[name |-> "UserReader", priority |-> p, test |-> "always"] : p \in {<<>>, <<10>>, <<200>>}}
    \cup {[name |-> "OtherReader", priority |-> p, test |-> "s3"] : p \in {<<>>, <<10>>}}

Paths == {<<"p">>, <<"s", "3", ":", "/", "/", "b">>}

MaxClasses == 3
MaxCalls == 3
Threads == {1, 2}

AtRest == [pc |-> "rest"]

NoLookups ==
    /\ subclasses = <<>>
    /\ instances = <<>>
    /\ constructed = <<>>
    /\ threads = [t \in Threads |-> AtRest]

\* ---- the resolver calls of Config.resolve ----
\* the calls x.resolve(self, path[1:], node) that traversal makes for the
\* string leaves of the tree below node, in the order it makes them
RECURSIVE dispatched(_, _)
dispatched(path, node) ==
    CASE node.t = "str" ->
           IF find_subclass(node.s) = "" THEN <<>>
           ELSE <<[key |-> Drop(path, 1), value |-> node.s]>>
      [] node.t = "dict" ->
           Flatten([n \in 1..Len(keys(node.d)) |->
                      dispatched(path \o keys(node.d)[n], node.d[keys(node.d)[n]])])
      [] node.t = "list" ->
           Flatten([n \in 1..Len(node.l) |->
                      dispatched(path \o <<"[">> \o StrInt(n - 1) \o <<"]">>, node.l[n])])
      [] OTHER -> <<>>

\* values holding the leaf ${b} under Maps and Sequences, one and two deep
RefLeaf == PyStr(Ref(k_b))
PathValues ==
    { RefLeaf, Dict1(k_k, RefLeaf), PyList(<<RefLeaf>>), PyList(<<PyInt(1), RefLeaf>>),
      Dict1(k_k, Dict1(k_y, RefLeaf)), Dict1(k_k, PyList(<<RefLeaf>>)),
      PyList(<<Dict1(k_k, RefLeaf)>>), PyList(<<PyList(<<RefLeaf>>)>>),
      Dict2(k_k, RefLeaf, k_y, RefLeaf) }

PathConfigs ==
    {Dict2(k_a, va, k_b, PyInt(5)) : va \in PathValues}
    \cup {PyDict([key \in {k_a, k_f, k_b} |->
                     IF key = k_a THEN va ELSE IF key = k_f THEN vf ELSE PyInt(5)]) :
             va \in PathValues, vf \in PathValues}

\* ---- object identity ----
\* A dict or list object that a Config was built from carries the identity
\* it was given; a dict or list that an operation builds carries none, so a
\* node of a result with an identity is an object of an input.
DictObject(id, d) == [t |-> "dict", d |-> d, id |-> id]
ListObject(id, l) == [t |-> "list", l |-> l, id |-> id]

\* values whose objects are numbered from first on: scalars, a map, a list,
\* a list in a map
ObjectValues(first) ==
    { PyInt(1), PyNone,
      DictObject(first, [key \in {k_k} |-> PyInt(1)]),
      ListObject(first, <<PyInt(1)>>),
      DictObject(first, [key \in {k_k} |-> ListObject(first + 1, <<PyInt(1)>>)]) }

\* the dicts with key a, with keys a and second, and those with a leaf e
\* referring to f besides
ObjectDicts(first, second) ==
    {[key \in {k_a} |-> va] : va \in ObjectValues(first + 1)}
    \cup {[key \in {k_a, second} |-> IF key = k_a THEN va ELSE vs] :
            va \in ObjectValues(first + 1), vs \in ObjectValues(first + 3)}

WithReference(d) == [key \in DOMAIN d \cup {k_e} |-> IF key = k_e THEN PyStr(Ref(k_f)) ELSE d[key]]

\* the receiver, its objects numbered from 0, and the argument of
\* with_fallback, its objects numbered from 10
ObjectRoots ==
    {DictObject(0, d) : d \in ObjectDicts(0, k_f)}
    \cup {DictObject(0, WithReference(d)) : d \in {x \in ObjectDicts(0, k_f) : k_f \in DOMAIN x}}
ObjectFallbacks == {DictObject(10, d) : d \in ObjectDicts(10, k_b)}

\* the Configs that with_fallback is given: for a receiver built from
\* numbered objects, the numbered arguments; the receiver itself in any case
Fallbacks(root) ==
    (IF "id" \in DOMAIN root THEN ObjectFallbacks ELSE MergeRoots(2)) \cup {root}

\* ---- Config.__iter__ ----
\* the elements of the drawn lists: scalars, a null, a map, lists
IterElems ==
    { PyInt(1), PyNone, Dict1(k_k, PyInt(3)), PyList(<<PyInt(4), Dict1(k_k, PyInt(5))>>),
      PyList(<<>>) }

\* the values under the key a: lists, scalars, maps, and maps with a dotted key
IterValues ==
    {PyList(l) : l \in SeqsUpTo(IterElems, MaxLen)}
    \cup { PyInt(1), PyNone, EmptyDict, Dict1(k_k, PyNone),
           Dict2(k_k, Dict1(k_y, PyInt(1)), k_y, PyList(<<PyInt(2)>>)),
           Dict1(k_ky, PyInt(1)), Dict2(k_k, Dict1(k_y, PyInt(2)), k_ky, PyInt(1)) }

IterConfigs ==
    {Dict1(k_a, v) : v \in IterValues} \cup {Dict2(k_a, v, k_b, PyInt(2)) : v \in IterValues}

InitGet == cfg \in GetConfigs /\ Idle /\ NoLookups
InitMerge == cfg \in MergeRoots(1) /\ Idle /\ NoLookups
InitResolve == cfg \in ResolveConfigs /\ Idle /\ NoLookups

\* config.get(key) and config.get(key, default)
Get ==
    \E key \in GetKeys, default \in GetDefaults :
        /\ op = "new"
        /\ op' = "get"
        /\ args' = [key |-> key, default |-> default]
        /\ out' = Config_get(cfg, key, default)
        /\ UNCHANGED <<cfg, regvars>>

\* config.with_fallback(other, fill_missing); other may be the Config itself
WithFallback ==
    \E other \in Fallbacks(cfg), fill_missing \in BOOLEAN :
        /\ op = "new"
        /\ op' = "with_fallback"
        /\ args' = [other |-> other, fill_missing |-> fill_missing]
        /\ out' = with_fallback(cfg, other, fill_missing)
        /\ UNCHANGED <<cfg, regvars>>

\* config.resolve()
Resolve ==
    /\ op = "new"
    /\ op' = "resolve"
    /\ args' = <<>>
    /\ out' = Config_resolve(cfg)
    /\ UNCHANGED <<cfg, regvars>>

\* resolver.resolve(config, key, value) of the reference resolver, called on a
\* string entry of the Config
ResolverResolve ==
    \E key \in DOMAIN cfg.d :
        /\ op = "new"
        /\ cfg.d[key].t = "str"
        /\ op' = "resolver.resolve"
        /\ args' = [key |-> key, value |-> cfg.d[key].s]
        /\ out' = resolve(cfg, key, cfg.d[key].s)
        /\ UNCHANGED <<cfg, regvars>>

\* the caller drops the outcome
Discard ==
    /\ op # "new"
    /\ op' = "new"
    /\ args' = <<>>
    /\ out' = Return(PyNone)
    /\ UNCHANGED <<cfg, regvars>>

NextGet == Get \/ Discard
NextMerge == WithFallback \/ Discard
NextResolve == Resolve \/ ResolverResolve \/ Discard

SpecGet == InitGet /\ [][NextGet]_vars
SpecMerge == InitMerge /\ [][NextMerge]_vars
SpecResolve == InitResolve /\ [][NextResolve]_vars

InitObjects == cfg \in ObjectRoots /\ Idle /\ NoLookups
NextObjects == WithFallback \/ Resolve \/ Discard
SpecObjects == InitObjects /\ [][NextObjects]_vars

InitEscape == cfg \in EscapeConfigs /\ Idle /\ NoLookups
SpecEscape == InitEscape /\ [][NextResolve]_vars

\* cfg is the Config of the command line arguments
InitFactory == cfg \in ArgumentConfigs /\ Idle /\ NoLookups

\* ConfigFactory.default_load() in a world where load behaves as drawn
DefaultLoad ==
    \E load \in LoadWorlds :
        LET made(result) ==
                /\ args' = [load |-> load, calls |-> result.calls]
                /\ out' = result.outcome
        IN  /\ op = "new"
            /\ op' = "default_load"
            /\ made(default_load(cfg, load))
            /\ UNCHANGED <<cfg, regvars>>

NextFactory == DefaultLoad \/ Discard
SpecFactory == InitFactory /\ [][NextFactory]_vars

InitChain == cfg \in ChainRoots(1) /\ Idle /\ NoLookups

\* config.with_fallback(other).with_fallback(last), and next to it the other
\* grouping config.with_fallback(other.with_fallback(last))
WithFallbackChained ==
    \E other \in ChainRoots(2), last \in ChainRoots(3) :
        /\ op = "new"
        /\ op' = "with_fallback.chained"
        /\ args' = [other |-> other, last |-> last,
                    grouped |-> with_fallback(cfg, with_fallback(other, last, TRUE).v, TRUE)]
        /\ out' = with_fallback(with_fallback(cfg, other, TRUE).v, last, TRUE)
        /\ UNCHANGED <<cfg, regvars>>

NextChain == WithFallbackChained \/ Discard
SpecChain == InitChain /\ [][NextChain]_vars

InitPaths == cfg \in PathConfigs /\ Idle /\ NoLookups

\* one of the calls x.resolve(self, path[1:], node) made during resolve()
ResolverCall ==
    /\ op = "new"
    /\ \E n \in 1..Len(dispatched(<<".">>, cfg)) :
           LET call(made) ==
                   /\ args' = [key |-> made.key, value |-> made.value, position |-> n]
                   /\ out' = resolve(cfg, made.key, made.value)
           IN  call(dispatched(<<".">>, cfg)[n])
    /\ op' = "resolve.leaf"
    /\ UNCHANGED <<cfg, regvars>>

NextPaths == Resolve \/ ResolverCall \/ Discard
SpecPaths == InitPaths /\ [][NextPaths]_vars

InitIter == cfg \in IterConfigs /\ Idle /\ NoLookups

\* list(iter(config))
Iter ==
    /\ op = "new"
    /\ op' = "iter"
    /\ args' = <<>>
    /\ out' = Return(PyList([n \in 1..Len(Config_iter(cfg)) |-> PyStr(Config_iter(cfg)[n])]))
    /\ UNCHANGED <<cfg, regvars>>

\* config.get(key) for a key the iteration has yielded
GetYielded ==
    /\ op = "iter"
    /\ \E n \in 1..Len(out.v.l) :
           /\ op' = "iter.get"
           /\ args' = [key |-> out.v.l[n].s, position |-> n]
           /\ out' = Config_get(cfg, out.v.l[n].s, PyNone)
    /\ UNCHANGED <<cfg, regvars>>

NextIter == Iter \/ GetYielded \/ Discard
SpecIter == InitIter /\ [][NextIter]_vars

\* pyboost.config is imported, with or without pyboost.aws.config after it
InitRegistry ==
    /\ cfg = EmptyDict
    /\ Idle
    /\ subclasses \in {<<LocalFileConfigReader>>, <<LocalFileConfigReader, S3ConfigReader>>}
    /\ instances = <<>>
    /\ constructed = <<>>
    /\ threads = [t \in Threads |-> AtRest]

\* class X(ConfigReader): the class joins __subclasses__() of its base
Declare ==
    \E c \in UserReaders :
        /\ Len(subclasses) < MaxClasses
        /\ \A i \in 1..Len(subclasses) : subclasses[i].name # c.name
        /\ subclasses' = Append(subclasses, c)
        /\ UNCHANGED <<cfg, op, args, out, instances, constructed, threads>>

\* find_subclass(x), up to the match: the subclasses are sorted and tested
\* in turn; without a match the call is over with the empty Option
FindSubclass(t) ==
    \E x \in Paths :
        /\ threads[t].pc = "rest"
        /\ Len(constructed) < MaxCalls
        /\ LET enter(hit) ==
                   IF hit = <<>>
                   THEN [pc |-> "returned", x |-> x, initial |-> subclasses, cached |-> DOMAIN instances,
                         result |-> <<>>]
                   ELSE [pc |-> "matched", x |-> x, initial |-> subclasses, cached |-> DOMAIN instances,
                         subclass |-> hit[1]]
           IN  threads' = [threads EXCEPT ![t] = enter(first_accepting(sorted(subclasses), x))]
        /\ UNCHANGED <<cfg, op, args, out, subclasses, instances, constructed>>

\* subclass(): the argument of setdefault is evaluated before setdefault is
\* called; when __init__ raises, the exception leaves find_subclass
Construct(t) ==
    /\ threads[t].pc = "matched"
    /\ \E fails \in (IF CanFail(threads[t].subclass) THEN BOOLEAN ELSE {FALSE}) :
          /\ constructed' = Append(constructed, [name |-> threads[t].subclass.name, ok |-> ~fails])
          /\ LET after(made) ==
                     IF made.ok
                     THEN [pc |-> "constructed", x |-> threads[t].x, initial |-> threads[t].initial,
                           cached |-> threads[t].cached, subclass |-> threads[t].subclass,
                           new |-> made.v]
                     ELSE [pc |-> "raised", x |-> threads[t].x, initial |-> threads[t].initial,
                           cached |-> threads[t].cached, subclass |-> threads[t].subclass,
                           call |-> Len(constructed) + 1, exc |-> made]
             IN  threads' = [threads EXCEPT ![t] = after(new_instance(Len(constructed) + 1, fails))]
    /\ UNCHANGED <<cfg, op, args, out, subclasses, instances>>

\* cls.__instances.setdefault(subclass, <the new instance>), Option.of(...)
SetDefault(t) ==
    /\ threads[t].pc = "constructed"
    /\ instances' = setdefault(instances, threads[t].subclass.name, threads[t].new)
    /\ threads' = [threads EXCEPT ![t] =
                       [pc |-> "returned", x |-> @.x, initial |-> @.initial, cached |-> @.cached,
                        result |-> <<instances'[@.subclass.name]>>]]
    /\ UNCHANGED <<cfg, op, args, out, subclasses, constructed>>

\* the caller takes the Option, or the exception
Leave(t) ==
    /\ threads[t].pc \in {"returned", "raised"}
    /\ threads' = [threads EXCEPT ![t] = AtRest]
    /\ UNCHANGED <<cfg, op, args, out, subclasses, instances, constructed>>

NextRegistry ==
    \/ Declare
    \/ \E t \in Threads : FindSubclass(t)
    \/ \E t \in Threads : Construct(t)
    \/ \E t \in Threads : SetDefault(t)
    \/ \E t \in Threads : Leave(t)

SpecRegistry == InitRegistry /\ [][NextRegistry]_vars

(***************************************************************************)
(* Addresses. The claims speak of the node a path addresses; this is said  *)
(* without the path parser: an address is a sequence of steps, a field     *)
(* name or an integer index, Nav follows it through a tree step by step    *)
(* and PathString writes it down as the path string a caller passes.       *)
(***************************************************************************)
FieldStep(name) == [f |-> name]
IndexStep(i) == [i |-> i]
IsFieldStep(step) == DOMAIN step = {"f"}

\* the result of following steps from node: the node reached, "missing" when a
\* step does not fit the node or names an absent field, "range" when an index
\* lies outside a Sequence
RECURSIVE Nav(_, _)
Nav(node, steps) ==
    IF steps = <<>> THEN [at |-> "node", v |-> node]
    ELSE
      LET step == Head(steps)
      IN  IF IsFieldStep(step)
          THEN IF node.t = "dict" /\ step.f \in DOMAIN node.d
               THEN Nav(node.d[step.f], Tail(steps))
               ELSE [at |-> "missing"]
          ELSE IF node.t # "list" THEN [at |-> "missing"]
          ELSE IF step.i >= 0 /\ step.i < Len(node.l)
               THEN Nav(node.l[step.i + 1], Tail(steps))
          ELSE IF step.i < 0 /\ step.i >= 0 - Len(node.l)
               THEN Nav(node.l[Len(node.l) + step.i + 1], Tail(steps))
          ELSE [at |-> "range"]

\* a.b[1].c for <<a, b, 1, c>>
RECURSIVE PathTail(_)
PathTail(steps) ==
    IF steps = <<>> THEN <<>>
    ELSE (IF IsFieldStep(Head(steps)) THEN <<".">> \o Head(steps).f
          ELSE <<"[">> \o StrInt(Head(steps).i) \o <<"]">>) \o PathTail(Tail(steps))

PathString(steps) == Head(steps).f \o PathTail(Tail(steps))

\* the addresses of all nodes below node, negative indices included
RECURSIVE Addrs(_)
Addrs(node) ==
    {<<>>}
    \cup (IF node.t = "dict"
          THEN UNION {{<<FieldStep(key)>> \o a : a \in Addrs(node.d[key])} : key \in DOMAIN node.d}
          ELSE {})
    \cup (IF node.t = "list"
          THEN UNION {{<<IndexStep(i)>> \o a : a \in Addrs(node.l[i + 1])}
                      \cup {<<IndexStep(i - Len(node.l))>> \o a : a \in Addrs(node.l[i + 1])} :
                      i \in 0..(Len(node.l) - 1)}
          ELSE {})

\* the addresses below a Config's root that start with a field
RootAddrs(root) == Addrs(root) \ {<<>>}

\* the addresses one step past an existing node; those among them that the tree
\* does not have, written as path strings
StepNames == {k_a, k_arr, k_k, k_z}
Steps == {FieldStep(n) : n \in StepNames} \cup {IndexStep(i) : i \in (0 - MaxIndex)..MaxIndex}
OneStepOn(root) ==
    {Append(b, step) : b \in RootAddrs(root), step \in Steps}
    \cup {<<FieldStep(n)>> : n \in StepNames}
IsMissing(root, a) == Nav(root, a).at = "missing"

Slices ==
    { [inner |-> <<>>, start |-> <<>>, stop |-> <<>>, step |-> <<>>],
      [inner |-> <<":">>, start |-> <<>>, stop |-> <<>>, step |-> <<>>],
      [inner |-> <<"1", ":">>, start |-> <<1>>, stop |-> <<>>, step |-> <<>>],
      [inner |-> <<":", "1">>, start |-> <<>>, stop |-> <<1>>, step |-> <<>>],
      [inner |-> <<":", "-", "1">>, start |-> <<>>, stop |-> <<-1>>, step |-> <<>>],
      [inner |-> <<":", ":", "-", "1">>, start |-> <<>>, stop |-> <<>>, step |-> <<-1>>],
      [inner |-> <<":", ":", "2">>, start |-> <<>>, stop |-> <<>>, step |-> <<2>>],
      [inner |-> <<"-", "2", ":", ":", "-", "1">>, start |-> <<-2>>, stop |-> <<>>, step |-> <<-1>>],
      [inner |-> <<"1", ":", "9">>, start |-> <<1>>, stop |-> <<9>>, step |-> <<>>] }

\* get of arr[i] followed by rest, for each index i of idx in turn
ElementGets(idx, rest) ==
    [j \in 1..Len(idx) |-> Config_get(cfg, k_arr \o Bracket(StrInt(idx[j])) \o rest, PyNone)]

\* the outcome of a get whose path has a slice step, given the gets of the
\* elements the slice selects
IsBroadcastOf(gets) ==
    IF \A j \in 1..Len(gets) : gets[j].ok
    THEN out = Return(PyList([j \in 1..Len(gets) |-> gets[j].v]))
    ELSE ~out.ok

\* C3: a get of arr[s].rest, s a slice, returns the list of the gets of
\* arr[i].rest for the indices i the Python slice s selects from arr, in that
\* order, and fails when one of them fails; for s = [:] and [] these are all N
\* indices 0..N-1.
C3_SliceBroadcast ==
    op = "get" =>
        \A s \in Slices, rest \in Rests :
            args.key = k_arr \o Bracket(s.inner) \o rest =>
                LET n == Len(cfg.d[k_arr].l)
                IN  /\ IsBroadcastOf(ElementGets(SliceIndices(n, s.start, s.stop, s.step), rest))
                    /\ s.inner \in {<<>>, <<":">>} =>
                          IsBroadcastOf(ElementGets([i \in 1..n |-> i - 1], rest))

\* arr[:].k on a Sequence of two maps, one with a null k, has returned both values
C3_Witness ==
    /\ op = "get"
    /\ args.key = k_arr \o Bracket(<<":">>) \o Field(k_k)
    /\ cfg.d[k_arr] = PyList(<<Dict1(k_k, PyInt(1)), Dict1(k_k, PyNone)>>)
    /\ out = Return(PyList(<<PyInt(1), PyNone>>))

\* r is the reference deep merge of the maps a and b: it has the keys of
\* both; at a key of both it is the deep merge of the two values when both are
\* maps and a's value otherwise; at a key of one map it is that map's value
RECURSIVE IsDeepMerge(_, _, _)
IsDeepMerge(r, a, b) ==
    /\ DOMAIN r = DOMAIN a \cup DOMAIN b
    /\ \A key \in DOMAIN r :
          IF key \in DOMAIN a /\ key \in DOMAIN b /\ a[key].t = "dict" /\ b[key].t = "dict"
          THEN r[key].t = "dict" /\ IsDeepMerge(r[key].d, a[key].d, b[key].d)
          ELSE IF key \in DOMAIN a THEN r[key] = a[key]
          ELSE r[key] = b[key]

\* C4: a.with_fallback(b) with fill_missing true is the reference deep merge
\* of a and b: maps on both sides recurse, any other collision keeps a's value
\* whole, a key of a alone is kept and a key of b alone is added.
C4_DeepMerge ==
    (op = "with_fallback" /\ args.fill_missing) =>
        out.ok /\ out.v.t = "dict" /\ IsDeepMerge(out.v.d, cfg.d, args.other.d)

\* a null and a nested Sequence of a have won over b's values, a nested key of
\* b alone and a top-level key of b alone have been added
C4_Witness ==
    /\ op = "with_fallback" /\ args.fill_missing
    /\ cfg = Dict1(k_a, Dict2(k_k, PyNone, k_y, PyInt(1)))
    /\ args.other = Dict2(k_a, Dict2(k_k, PyInt(2), k_y, Dict1(k_k, PyInt(2))), k_b, PyInt(2))
    /\ out = Return(Dict2(k_a, Dict2(k_k, PyNone, k_y, PyInt(1)), k_b, PyInt(2)))

\* the maps of r have the keys of the maps of a, at every depth
RECURSIVE SameKeysDeep(_, _)
SameKeysDeep(r, a) ==
    /\ DOMAIN r = DOMAIN a
    /\ \A key \in DOMAIN r :
          (r[key].t = "dict" /\ a[key].t = "dict") => SameKeysDeep(r[key].d, a[key].d)

\* C5 as stated: with fill_missing false the result has self's keys at every
\* merged map, at whatever depth.
C5_AsStated ==
    (op = "with_fallback" /\ ~args.fill_missing) =>
        out.ok /\ SameKeysDeep(out.v.d, cfg.d)

\* C5: with fill_missing false the result has exactly self's top-level keys;
\* a top-level key of both whose two values are maps holds their reference
\* deep merge, the keys of other alone included, and every other key keeps
\* self's value.
C5_NoFillTopOnly ==
    (op = "with_fallback" /\ ~args.fill_missing) =>
        /\ out.ok /\ out.v.t = "dict"
        /\ DOMAIN out.v.d = DOMAIN cfg.d
        /\ \A key \in DOMAIN cfg.d :
              IF key \in DOMAIN args.other.d
                 /\ cfg.d[key].t = "dict" /\ args.other.d[key].t = "dict"
              THEN /\ out.v.d[key].t = "dict"
                   /\ IsDeepMerge(out.v.d[key].d, cfg.d[key].d, args.other.d[key].d)
              ELSE out.v.d[key] = cfg.d[key]

\* without fill_missing, b of other alone has been dropped and the nested y of
\* other alone has been added
C5_Witness ==
    /\ op = "with_fallback" /\ ~args.fill_missing
    /\ cfg = Dict1(k_a, Dict1(k_k, PyInt(1)))
    /\ args.other = Dict2(k_a, Dict1(k_y, PyInt(2)), k_b, PyInt(2))
    /\ out = Return(Dict1(k_a, Dict2(k_k, PyInt(1), k_y, PyInt(2))))

\* C6: a.with_fallback(a) == a, with fill_missing true and false.
C6_Idempotent ==
    (op = "with_fallback" /\ args.other = cfg) => out = Return(cfg)

\* a Config with a null, a nested map and a scalar has been merged with itself
C6_Witness ==
    /\ op = "with_fallback" /\ args.other = cfg
    /\ cfg = Dict2(k_a, Dict2(k_k, PyNone, k_y, Dict1(k_k, PyInt(1))), k_b, PyInt(1))
    /\ out = Return(cfg)

(***************************************************************************)
(* C7..C10: the reference resolver                                         *)
(***************************************************************************)
\* the node a path addresses in a tree, if there is one
LookupIn(root, path) ==
    LET hits == {a \in RootAddrs(root) : PathString(a) = path}
    IN  IF hits = {} THEN [found |-> FALSE]
        ELSE [found |-> TRUE, v |-> Nav(root, CHOOSE a \in hits : TRUE).v]
Lookup(path) == LookupIn(cfg, path)

\* the types the claim calls native
NativeTypes == {"dict", "list", "int", "bool"}

\* what a part of a mixed leaf stands for: the text itself, a $ for the
\* escape, the referenced value for a reference
IsRefPart(p) == p \in {Ref(k_f), Ref(k_b), Ref(k_z), Ref(Default(k_z, <<"1">>))}
PartValue(p) ==
    CASE p = <<"$", "$">> -> [found |-> TRUE, v |-> PyStr(<<"$">>)]
      [] p = Ref(k_f) -> Lookup(k_f)
      [] p = Ref(k_b) -> Lookup(k_b)
      [] p = Ref(k_z) -> Lookup(k_z)
      [] p = Ref(Default(k_z, <<"1">>)) -> [found |-> TRUE, v |-> PyInt(1)]
      [] OTHER -> [found |-> TRUE, v |-> PyStr(p)]

\* the mixed leaves whose parts are read back unchanged: two parts or more, a
\* reference among them, no lone $
MixedLeaves ==
    {ps \in SeqsUpTo(Parts, MaxParts) :
        /\ Len(ps) >= 2
        /\ \E i \in 1..Len(ps) : IsRefPart(ps[i])
        /\ \A i \in 1..Len(ps) : ps[i] # <<"$">>}

\* every part stands for a scalar
AllScalar(ps) ==
    \A i \in 1..Len(ps) : PartValue(ps[i]).found /\ ~IsComposite(PartValue(ps[i]).v)

Coerced(ps) == Flatten([i \in 1..Len(ps) |-> str(PartValue(ps[i]).v)])

RECURSIVE Chain(_)
Chain(cs) == IF Len(cs) = 1 THEN cs[1] ELSE Or(Chain(SubSeq(cs, 1, Len(cs) - 1)), cs[Len(cs)])

\* the candidate lists of the drawn references
Singles == {<<k_f>>, <<k_b>>, <<k_z>>, <<k_f \o Field(k_k)>>}
Chains ==
    { <<k_f, k_b>>, <<k_z, k_b>>, <<k_z, k_y>>, <<k_f, k_z>>, <<k_z, k_y, k_b>>,
      <<k_z, k_f, k_b>>, <<k_f \o Field(k_k), k_b>> }

\* the candidates of cs that cfg has, by position
Hits(cs) == {i \in 1..Len(cs) : Lookup(cs[i]).found}
FirstHit(cs) == cs[CHOOSE i \in Hits(cs) : \A j \in Hits(cs) : i <= j]

\* C8: the value of ${c1|...|cn} is that of the leftmost candidate cfg has,
\* whatever the later candidates hold, and in the Config resolve() returns the
\* leaf holds what that candidate's place holds (a null value aside).
C8_FirstCandidateWins ==
    /\ op = "resolver.resolve" =>
          \A cs \in Chains :
              (args.value = Ref(Chain(cs)) /\ Hits(cs) # {}) =>
                  out = Return(Lookup(FirstHit(cs)).v)
    /\ (op = "resolve" /\ out.ok) =>
          \A cs \in Chains :
              cfg.d[k_e] = PyStr(Ref(Chain(cs))) =>
                  /\ Hits(cs) # {}
                  /\ Lookup(FirstHit(cs)).v # PyNone =>
                        out.v.d[k_e] = LookupIn(out.v, FirstHit(cs)).v

\* ${z|f|b} with f and b both there has taken f's value
C8_Witness ==
    /\ op = "resolver.resolve"
    /\ args.value = Ref(Chain(<<k_z, k_f, k_b>>))
    /\ k_f \in DOMAIN cfg.d /\ cfg.d[k_f] = PyInt(1)
    /\ k_b \in DOMAIN cfg.d /\ cfg.d[k_b] = PyInt(5)
    /\ out = Return(PyInt(1))

\* the drawn references with a default: the candidates, the default's text and
\* the value the text stands for
DefaultCases ==
    { [cs |-> <<k_z>>, d |-> <<"1">>, lit |-> PyInt(1)],
      [cs |-> <<k_z>>, d |-> <<>>, lit |-> PyStr(<<>>)],
      [cs |-> <<k_z>>, d |-> k_b, lit |-> PyStr(k_b)],
      [cs |-> <<k_f>>, d |-> <<"1">>, lit |-> PyInt(1)],
      [cs |-> <<k_b>>, d |-> k_f, lit |-> PyStr(k_f)],
      [cs |-> <<k_z>>, d |-> s_None, lit |-> PyNone],
      [cs |-> <<k_z>>, d |-> s_True, lit |-> PyBool(TRUE)],
      [cs |-> <<k_z>>, d |-> <<"-", "1", "2">>, lit |-> PyInt(-12)],
      [cs |-> <<k_z>>, d |-> <<"[", "1", ",", "2", "]">>, lit |-> PyList(<<PyInt(1), PyInt(2)>>)],
      [cs |-> <<k_z>>, d |-> <<"0", "1">>, lit |-> PyStr(<<"0", "1">>)],
      [cs |-> <<k_z>>, d |-> <<"a", "-">>, lit |-> PyStr(<<"a", "-">>)],
      [cs |-> <<k_z>>, d |-> <<"{", "}">>, lit |-> EmptyDict],
      [cs |-> <<k_z>>, d |-> Ref(k_b), lit |-> PyStr(Ref(k_b))],
      [cs |-> <<k_z, k_y>>, d |-> s_False, lit |-> PyBool(FALSE)],
      [cs |-> <<k_z, k_b>>, d |-> <<"1">>, lit |-> PyInt(1)],
      [cs |-> <<k_f, k_z>>, d |-> <<"1">>, lit |-> PyInt(1)] }

\* C9: ${c1|...|cn?DEFAULT} takes the value of the leftmost candidate cfg has,
\* and the default exactly when cfg has none of them; the default comes back
\* as the literal its text stands for (number, boolean, null, list, map) and
\* as the text itself otherwise, and is not looked up as a key.
C9_AsStated ==
    /\ op = "resolver.resolve" =>
          \A c \in DefaultCases :
              args.value = Ref(Default(Chain(c.cs), c.d)) =>
                  out = Return(IF Hits(c.cs) # {} THEN Lookup(FirstHit(c.cs)).v ELSE c.lit)
    /\ (op = "resolve" /\ out.ok) =>
          \A c \in DefaultCases :
              (/\ cfg.d[k_e] = PyStr(Ref(Default(Chain(c.cs), c.d)))
               /\ Hits(c.cs) = {} /\ c.lit # PyNone) =>
                  out.v.d[k_e] = c.lit

\* the first part of a mixed leaf that stands for nothing in cfg comes after
\* parts that all stand for something
HasUnresolved(ps) == \E i \in 1..Len(ps) : ~PartValue(ps[i]).found

HasComposite(ps) ==
    /\ \A i \in 1..Len(ps) : PartValue(ps[i]).found
    /\ \E i \in 1..Len(ps) : IsComposite(PartValue(ps[i]).v)

\* C11: a leaf of several parts one of which is a reference to a Map or a
\* Sequence, whether the first part, a middle one or the last, makes the
\* resolver and resolve() raise CompositeSubstitution; no string is made.
C11_AsStated ==
    /\ op = "resolver.resolve" =>
          \A ps \in MixedLeaves :
              (args.value = Flatten(ps) /\ HasComposite(ps)) => out = CompositeSubstitution
    /\ op = "resolve" =>
          \A ps \in MixedLeaves :
              (/\ cfg.d[k_e] = PyStr(Flatten(ps)) /\ HasComposite(ps)
               /\ find_subclass(Flatten(ps)) # "") => out = CompositeSubstitution

(***************************************************************************)
(* C12: the registry selects by priority, then by declaration order        *)
(***************************************************************************)
\* the priority the claim gives a class: the declared one, 100 without
PriorityOf(c) == IF c.priority = <<>> THEN 100 ELSE c.priority[1]

\* the positions, in declaration order, of the classes accepting x
Accepting(subs, x) == {i \in 1..Len(subs) : accepts(subs[i], x)}

\* i comes before j: lower priority value, or the same and declared earlier
Before(subs, i, j) ==
    \/ PriorityOf(subs[i]) < PriorityOf(subs[j])
    \/ PriorityOf(subs[i]) = PriorityOf(subs[j]) /\ i < j

\* the results of the calls that returned
Returned == {t \in Threads : threads[t].pc = "returned"}

\* C12: a find_subclass(x) that some declared class accepts returns an
\* instance of the accepting class of lowest priority value (100 when the
\* class declares none), the first declared among those of equal priority.
C12_LowestPriorityWins ==
    \A t \in Returned :
        \A i \in Accepting(threads[t].initial, threads[t].x) :
            (\A j \in Accepting(threads[t].initial, threads[t].x) \ {i} : Before(threads[t].initial, i, j))
                => /\ threads[t].result # <<>>
                   /\ type(threads[t].result[1]) = threads[t].initial[i].name

\* three readers accept an s3 path: the local one (200, declared first), the
\* S3 one and a user's (both without priority); the S3 one is returned
C12_Witness ==
    /\ threads[1].pc = "returned"
    /\ threads[1].initial = <<LocalFileConfigReader, S3ConfigReader,
                              [name |-> "UserReader", priority |-> <<>>, test |-> "always"]>>
    /\ threads[1].x = <<"s", "3", ":", "/", "/", "b">>
    /\ threads[1].result # <<>>
    /\ type(threads[1].result[1]) = "S3ConfigReader"

(***************************************************************************)
(* C13: how often a class of the registry is constructed                   *)
(***************************************************************************)
\* the constructor calls made on the class of that name
Constructions(name) == {i \in 1..Len(constructed) : constructed[i].name = name}

\* C13: over any sequence of find_subclass calls the constructor of a class
\* runs at most once, and a call that finds the class in the cache when it
\* starts does not construct it again.
C13_AsStated ==
    /\ \A i \in 1..Len(subclasses) : Cardinality(Constructions(subclasses[i].name)) <= 1
    /\ \A t \in Threads :
           threads[t].pc = "constructed" => threads[t].subclass.name \notin threads[t].cached

(***************************************************************************)
(* C18: two threads racing for the first instance of a class               *)
(***************************************************************************)
\* t and u are two calls that returned an instance of the same class, which
\* was in the cache when neither of them started
Raced(t, u) ==
    /\ t # u
    /\ threads[t].pc = "returned" /\ threads[u].pc = "returned"
    /\ threads[t].result # <<>> /\ threads[u].result # <<>>
    /\ type(threads[t].result[1]) = type(threads[u].result[1])
    /\ type(threads[t].result[1]) \notin threads[t].cached \cup threads[u].cached

\* the two calls were given one instance and the cache holds it
SharedInstance(t, u) ==
    /\ threads[t].result = threads[u].result
    /\ instances[type(threads[t].result[1])] = threads[t].result[1]

\* C18: two threads calling find_subclass concurrently for a class not yet
\* instantiated construct it only once, get the same instance, and leave
\* exactly that instance in the cache.
C18_AsStated ==
    \A t, u \in Threads :
        Raced(t, u) => /\ Cardinality(Constructions(type(threads[t].result[1]))) = 1
                       /\ SharedInstance(t, u)

(***************************************************************************)
(* C14: what resolve() leaves in the tree                                  *)
(***************************************************************************)
\* the strings at the leaves of a value
RECURSIVE StringLeaves(_)
StringLeaves(v) ==
    CASE v.t = "str" -> {v.s}
      [] v.t = "dict" -> UNION {StringLeaves(v.d[k]) : k \in DOMAIN v.d}
      [] v.t = "list" -> UNION {StringLeaves(v.l[i]) : i \in 1..Len(v.l)}
      [] OTHER -> {}

\* C14: when resolve() returns, no string leaf of the result is accepted by
\* the predicate of a registered resolver, also when a referenced value or a
\* default is null.
C14_AsStated ==
    (op = "resolve" /\ out.ok) => \A leaf \in StringLeaves(out.v) : find_subclass(leaf) = ""

(***************************************************************************)
(* C17: self-referential chains                                            *)
(***************************************************************************)
\* f and b refer to each other: b is ${f}, and f is ${b} or a Sequence
\* holding ${b}
SelfReferential(root) ==
    /\ k_f \in DOMAIN root.d /\ k_b \in DOMAIN root.d
    /\ root.d[k_b] = PyStr(Ref(k_f))
    /\ root.d[k_f] \in {PyStr(Ref(k_b)), PyList(<<PyInt(1), PyStr(Ref(k_b))>>)}

\* what the leaf e, visited before f and b, comes to
Earlier(root) == traversal(root, <<".">> \o k_e, root.d[k_e], 1)

\* C17 (as stated): on a Config containing a self-referential chain,
\* resolve() fails with RecursionError, never with ConfigException.
C17_AsStated ==
    (op = "resolve" /\ SelfReferential(cfg)) => out = RecursionError

\* C17 (amended): on a Config containing a self-referential chain resolve()
\* never returns a Config; it fails with RecursionError unless a leaf visited
\* before the chain fails by itself, in which case that failure (a
\* ConfigException, or no return at all) is the outcome.
C17_ChainOverflows ==
    (op = "resolve" /\ SelfReferential(cfg)) =>
        /\ ~out.ok
        /\ out = RecursionError \/ (~Earlier(cfg).ok /\ out = Earlier(cfg))

\* e is ${z?1}, which resolves to 1; f and b are ${b} and ${f}
C17_Witness ==
    /\ op = "resolve"
    /\ cfg = PyDict([k \in {k_e, k_f, k_b} |->
                        IF k = k_e THEN PyStr(Ref(Default(k_z, <<"1">>)))
                        ELSE IF k = k_f THEN PyStr(Ref(k_b)) ELSE PyStr(Ref(k_f))])
    /\ Earlier(cfg) = Return(PyInt(1))
    /\ out = RecursionError

(***************************************************************************)
(* C20: the KeyNotFound failure names the whole path                       *)
(***************************************************************************)
\* the failure the claim describes, for the path string passed to get
KeyNotFound(path) == [ok |-> FALSE, exc |-> "ConfigException", msg |-> "no config found for key", arg |-> path]

\* the last step of the address a does not fit the node before it: a field
\* step on a non-Map, a bracket step on a non-Sequence, a field the Map lacks
Misfit(root, a) ==
    LET before == Nav(root, SubSeq(a, 1, Len(a) - 1))
        last == a[Len(a)]
    IN  /\ before.at = "node"
        /\ \/ IsFieldStep(last) /\ before.v.t # "dict"
           \/ ~IsFieldStep(last) /\ before.v.t # "list"
           \/ IsFieldStep(last) /\ before.v.t = "dict" /\ last.f \notin DOMAIN before.v.d

\* the steps after a slice step, as path strings and as addresses
RestSteps ==
    { [rest |-> Field(k_k), steps |-> <<FieldStep(k_k)>>],
      [rest |-> Bracket(<<"0">>) \o Field(k_k), steps |-> <<IndexStep(0), FieldStep(k_k)>>] }

\* the elements of arr that the slice s selects
Selected(s) ==
    LET pick(idx) == {cfg.d[k_arr].l[idx[j] + 1] : j \in 1..Len(idx)}
    IN  pick(SliceIndices(Len(cfg.d[k_arr].l), s.start, s.stop, s.step))

\* from the node, the steps end in a misfit (and not outside a Sequence)
MisfitBelow(node, steps) ==
    \E n \in 1..Len(steps) : Misfit(node, SubSeq(steps, 1, n))

\* C20: a get whose path applies a field step to a non-Map node, a bracket
\* step to a non-Sequence node, or names a field missing from a Map fails with
\* KeyNotFound naming the whole path passed to get, with or without a
\* default; the same holds when the step fails on an element selected by a
\* slice step, the remaining steps being fields, indices or a further slice.
C20_NamesFullPath ==
    op = "get" =>
        /\ \A a \in OneStepOn(cfg) :
               (PathString(a) = args.key /\ Misfit(cfg, a)) => out = KeyNotFound(args.key)
        /\ \A s \in Slices, r \in RestSteps :
               (/\ args.key = k_arr \o Bracket(s.inner) \o r.rest
                /\ \E node \in Selected(s) : MisfitBelow(node, r.steps)
                /\ \A node \in Selected(s) : Nav(node, r.steps).at # "range")
                   => out = KeyNotFound(args.key)
        /\ \A s \in Slices :
               (/\ args.key = k_arr \o Bracket(s.inner) \o Bracket(<<>>) \o Field(k_k)
                /\ \E node \in Selected(s) : node.t # "list")
                   => out = KeyNotFound(args.key)

\* arr[:].k, with a default, on a Sequence whose first element has k and whose
\* second is a number: the failure names arr[:].k
C20_Witness ==
    /\ op = "get"
    /\ args.key = k_arr \o Bracket(<<":">>) \o Field(k_k)
    /\ args.default = PyInt(9)
    /\ cfg.d[k_arr] = PyList(<<Dict1(k_k, PyInt(1)), PyInt(7)>>)
    /\ out = KeyNotFound(k_arr \o Bracket(<<":">>) \o Field(k_k))

(***************************************************************************)
(* C15, C16: flattened iteration                                           *)
(***************************************************************************)
\* the addresses of the nodes below the node at address a, from its n-th
\* child on: each child before its own descendants, children in declaration
\* or index order
RECURSIVE PreOrderFrom(_, _, _)
PreOrderFrom(node, a, n) ==
    LET count == IF node.t = "dict" THEN Len(keys(node.d))
                 ELSE IF node.t = "list" THEN Len(node.l) ELSE 0
    IN  IF n > count THEN <<>>
        ELSE LET step == IF node.t = "dict" THEN FieldStep(keys(node.d)[n]) ELSE IndexStep(n - 1)
                 child == IF node.t = "dict" THEN node.d[keys(node.d)[n]] ELSE node.l[n]
             IN  <<Append(a, step)>> \o PreOrderFrom(child, Append(a, step), 1)
                                     \o PreOrderFrom(node, a, n + 1)

PreOrder(root) == PreOrderFrom(root, <<>>, 1)

\* C15: every key that flattened iteration yields can be passed to get, which
\* does not fail and returns the value stored at the position the key was
\* yielded for.
C15_AsStated ==
    op = "iter.get" => out = Return(Nav(cfg, PreOrder(cfg)[args.position]).v)

\* C16: flattened iteration yields, once each and in depth-first pre-order,
\* the path of every Map entry and Sequence element at every depth: a node
\* before its descendants, siblings in declaration or index order, fields
\* joined with `.` and elements written [i].
C16_PreOrderPaths ==
    op = "iter" =>
        /\ out.ok /\ out.v.t = "list"
        /\ Len(out.v.l) = Len(PreOrder(cfg))
        /\ \A n \in 1..Len(out.v.l) : out.v.l[n] = PyStr(PathString(PreOrder(cfg)[n]))
        /\ {PreOrder(cfg)[n] : n \in 1..Len(PreOrder(cfg))}
               = {a \in RootAddrs(cfg) : \A n \in 1..Len(a) : IsFieldStep(a[n]) \/ a[n].i >= 0}
        /\ Cardinality({PreOrder(cfg)[n] : n \in 1..Len(PreOrder(cfg))}) = Len(PreOrder(cfg))

\* the tree of the repository's test: a map holding a scalar, then a list of
\* a scalar and a list holding a scalar and a map
C16_Witness ==
    /\ op = "iter"
    /\ cfg = Dict2(k_a, PyList(<<Dict1(k_k, PyInt(3)), PyList(<<PyInt(4), Dict1(k_k, PyInt(5))>>)>>),
                   k_b, PyInt(2))
    /\ out = Return(PyList(<<PyStr(k_a),
                             PyStr(k_a \o Bracket(<<"0">>)),
                             PyStr(k_a \o Bracket(<<"0">>) \o Field(k_k)),
                             PyStr(k_a \o Bracket(<<"1">>)),
                             PyStr(k_a \o Bracket(<<"1">>) \o Bracket(<<"0">>)),
                             PyStr(k_a \o Bracket(<<"1">>) \o Bracket(<<"1">>)),
                             PyStr(k_a \o Bracket(<<"1">>) \o Bracket(<<"1">>) \o Field(k_k)),
                             PyStr(k_b)>>))

(***************************************************************************)
(* C19: the objects of a result                                            *)
(***************************************************************************)
\* the identities of the dict and list objects reachable from a value
RECURSIVE Objects(_)
Objects(v) ==
    (IF "id" \in DOMAIN v THEN {v.id} ELSE {})
    \cup (CASE v.t = "dict" -> UNION {Objects(v.d[k]) : k \in DOMAIN v.d}
            [] v.t = "list" -> UNION {Objects(v.l[i]) : i \in 1..Len(v.l)}
            [] OTHER -> {})

\* C19: no Map or Sequence node reachable from the Config that with_fallback
\* or resolve returns is an object reachable from the receiver or from the
\* argument.
C19_AsStated ==
    /\ (op = "with_fallback" /\ out.ok) =>
           Objects(out.v) \cap (Objects(cfg) \cup Objects(args.other)) = {}
    /\ (op = "resolve" /\ out.ok) => Objects(out.v) \cap Objects(cfg) = {}

(***************************************************************************)
(* C21: index steps and slice steps on a Sequence                          *)
(***************************************************************************)
\* the failure the claim names, for the text between the brackets
OutOfRange(inner) == [ok |-> FALSE, exc |-> "ConfigException", msg |-> "index out of range", arg |-> inner]

\* what get returns for a value: the default stands in for a null
Got(v) == Return(IF v = PyNone THEN args.default ELSE v)

\* C21: get of arr[i] on a Sequence of length n returns the element at
\* position i for 0 <= i < n and at position n + i for -n <= i < 0, and for
\* every other i fails with IndexOutOfRange, whatever steps follow; get of
\* arr[s], s a slice, followed by nothing or by a field never fails with
\* IndexOutOfRange.
C21_IndexAndSlice ==
    op = "get" =>
        LET n == Len(cfg.d[k_arr].l)
        IN  /\ \A i \in (0 - MaxIndex)..MaxIndex :
                  /\ (args.key = k_arr \o Bracket(StrInt(i)) /\ 0 <= i /\ i < n)
                        => out = Got(cfg.d[k_arr].l[i + 1])
                  /\ (args.key = k_arr \o Bracket(StrInt(i)) /\ 0 - n <= i /\ i < 0)
                        => out = Got(cfg.d[k_arr].l[n + i + 1])
                  /\ \A rest \in {<<>>, Field(k_k)} :
                        (args.key = k_arr \o Bracket(StrInt(i)) \o rest /\ (i >= n \/ i < 0 - n))
                            => out = OutOfRange(StrInt(i))
            /\ \A s \in Slices, rest \in {<<>>, Field(k_k)} :
                  args.key = k_arr \o Bracket(s.inner) \o rest
                      => (out.ok \/ out.msg # "index out of range")

\* arr[-2] on a Sequence of two elements has returned the first one
C21_Witness ==
    /\ op = "get"
    /\ args.key = k_arr \o Bracket(StrInt(-2))
    /\ cfg.d[k_arr] = PyList(<<PyInt(7), Dict1(k_k, PyInt(1))>>)
    /\ out = Return(PyInt(7))

(***************************************************************************)
(* C22: a constructor that fails                                           *)
(***************************************************************************)
\* the threads whose constructor call is over and whose find_subclass is not
Constructing == {t \in Threads : threads[t].pc \in {"constructed", "raised"}}

\* the failure of a constructor reaches the caller, and the cache holds only
\* instances that a successful constructor call of their class made
FailurePropagates ==
    /\ \A t \in Constructing :
           IF threads[t].pc = "raised"
           THEN ~constructed[threads[t].call].ok /\ threads[t].exc = ConstructionFailed
           ELSE constructed[threads[t].new].ok
    /\ \A name \in DOMAIN instances :
           /\ instances[name] \in 1..Len(constructed)
           /\ constructed[instances[name]] = [name |-> name, ok |-> TRUE]

\* a constructor call that fails leaves the cache as it was, and so does the
\* caller's taking the exception
FailureNotCached ==
    /\ (Len(constructed') > Len(constructed) /\ ~constructed'[Len(constructed')].ok)
           => instances' = instances
    /\ \A t \in Threads :
           (threads[t].pc = "raised" /\ threads'[t] # threads[t]) => instances' = instances

\* a call that matched a class calls its constructor, whatever happened before
AttemptsAgain ==
    \A t \in Threads :
        (threads[t].pc = "matched" /\ threads'[t] # threads[t]) =>
            /\ Len(constructed') = Len(constructed) + 1
            /\ constructed'[Len(constructed')].name = threads[t].subclass.name

\* C22: when the constructor of the matched class fails, find_subclass
\* passes the failure to its caller and the instance cache stays as it was,
\* holding no failure and no half-built instance; a later find_subclass that
\* matches the class calls the constructor again.
C22_FailurePropagates ==
    [](FailurePropagates) /\ [][FailureNotCached /\ AttemptsAgain]_vars

\* the first constructor call of S3ConfigReader failed and left the cache
\* empty; a later call has constructed it
C22_Witness ==
    /\ Len(constructed) = 2
    /\ constructed[1] = [name |-> "S3ConfigReader", ok |-> FALSE]
    /\ constructed[2] = [name |-> "S3ConfigReader", ok |-> TRUE]
    /\ instances = <<>>
    /\ threads[1].pc = "constructed"
    /\ threads[2].pc = "rest"

(***************************************************************************)
(* C23: where the default of get applies                                   *)
(***************************************************************************)
\* the elements of arr that the slice s selects, in the order it selects them
SelectedSeq(s) ==
    LET pick(idx) == [j \in 1..Len(idx) |-> cfg.d[k_arr].l[idx[j] + 1]]
    IN  pick(SliceIndices(Len(cfg.d[k_arr].l), s.start, s.stop, s.step))

\* C23: get(key, default) returns the default when the addressed value is
\* null and the value otherwise; when the path is arr[s].k, s a slice, and
\* every selected element has k, the returned Sequence holds the values of k
\* with the nulls among them, not the default.
C23_DefaultAtTopOnly ==
    op = "get" =>
        /\ \A a \in RootAddrs(cfg) :
               PathString(a) = args.key =>
                   out = Return(IF Nav(cfg, a).v = PyNone THEN args.default ELSE Nav(cfg, a).v)
        /\ \A s \in Slices :
               (/\ args.key = k_arr \o Bracket(s.inner) \o Field(k_k)
                /\ \A j \in 1..Len(SelectedSeq(s)) :
                       Nav(SelectedSeq(s)[j], <<FieldStep(k_k)>>).at = "node")
                   => out = Return(PyList([j \in 1..Len(SelectedSeq(s)) |->
                                              Nav(SelectedSeq(s)[j], <<FieldStep(k_k)>>).v]))

\* arr[:].k with default 9 on two maps, the second with a null k, has
\* returned the null in its place
C23_Witness ==
    /\ op = "get"
    /\ args.key = k_arr \o Bracket(<<":">>) \o Field(k_k)
    /\ args.default = PyInt(9)
    /\ cfg.d[k_arr] = PyList(<<Dict1(k_k, PyInt(1)), Dict1(k_k, PyNone)>>)
    /\ out = Return(PyList(<<PyInt(1), PyNone>>))

(***************************************************************************)
(* C24: the path a resolver is handed                                      *)
(***************************************************************************)
\* the addresses of the string leaves a resolver accepts, in traversal order
ResolvedLeaves(root) ==
    SelectSeq(PreOrder(root),
              LAMBDA a : Nav(root, a).v.t = "str" /\ find_subclass(Nav(root, a).v.s) # "")

\* C24: the path handed to the resolver for a string leaf is the leaf's
\* flattened address, `.key` for each Map entry and [i] for each Sequence
\* element from the root down, at every depth.
C24_AsStated ==
    op = "resolve.leaf" =>
        /\ args.value = Nav(cfg, ResolvedLeaves(cfg)[args.position]).v.s
        /\ args.key = PathString(ResolvedLeaves(cfg)[args.position])

(***************************************************************************)
(* C25: what a fallback chain swallows                                     *)
(***************************************************************************)
\* the first candidate of the chain in the reference ${expr}
FirstCandidate(expr) == split1(split(expr, "|")[1], "?")[1]
\* expr has something to fall back on: a further candidate or a default
HasFallback(expr) == find(expr, <<"|">>) >= 0 \/ find(expr, <<"?">>) >= 0
\* get fails on the path with an index out of range or an illegal slice
IndexOrSliceFailure(outcome) ==
    /\ ~outcome.ok
    /\ outcome.exc = "ConfigException"
    /\ outcome.msg \in {"index out of range", "illegal slice"}

\* C25: in a fallback chain only a missing key makes evaluation move on; an
\* index out of range or an illegal slice raised by a candidate surfaces to
\* the caller.
C25_AsStated ==
    \A expr \in Exprs :
        (/\ op = "resolver.resolve"
         /\ args.value = Ref(expr)
         /\ HasFallback(expr)
         /\ IndexOrSliceFailure(Config_get(cfg, FirstCandidate(expr), PyNone)))
        => out = Config_get(cfg, FirstCandidate(expr), PyNone)

(***************************************************************************)
(* C26: the $$ escape                                                      *)
(***************************************************************************)
\* the Config with the reference ${expr} at e in place of the escaped one
Unescaped(root, expr) ==
    PyDict([key \in DOMAIN root.d |-> IF key = k_e THEN PyStr(Ref(expr)) ELSE root.d[key]])

\* the drawn reference bodies free of a $ of their own: the paths, and the
\* chains and defaults over them
PlainExprs == {expr \in Exprs : find(expr, <<"$">>) < 0}

RECURSIVE FillsNested(_, _, _)
FillsNested(r, a, b) ==
    \A key \in DOMAIN a \cap DOMAIN b :
        (a[key].t = "dict" /\ b[key].t = "dict") =>
            /\ r[key].t = "dict"
            /\ \A inner \in DOMAIN b[key].d \ DOMAIN a[key].d :
                   /\ inner \in DOMAIN r[key].d
                   /\ r[key].d[inner] = b[key].d[inner]
            /\ FillsNested(r[key].d, a[key].d, b[key].d)

\* C27: with fill_missing false the keys of other alone are dropped at the
\* top level, while inside a Map of both sides the keys of other's Map alone
\* are still added.
C27_TopLevelOnly ==
    (op = "with_fallback" /\ ~args.fill_missing) =>
        /\ out.ok /\ out.v.t = "dict"
        /\ \A key \in DOMAIN args.other.d \ DOMAIN cfg.d : key \notin DOMAIN out.v.d
        /\ FillsNested(out.v.d, cfg.d, args.other.d)

\* b of other alone has been dropped; under a, the Map y of other alone has
\* been added next to self's null
C27_Witness ==
    /\ op = "with_fallback" /\ ~args.fill_missing
    /\ cfg = Dict1(k_a, Dict1(k_k, PyNone))
    /\ args.other = Dict2(k_a, Dict2(k_k, PyInt(2), k_y, Dict1(k_k, PyInt(2))), k_b, PyInt(2))
    /\ out = Return(Dict1(k_a, Dict2(k_k, PyNone, k_y, Dict1(k_k, PyInt(2)))))

(***************************************************************************)
(* C28: the order of the default candidates                                *)
(***************************************************************************)
\* application.json, application.ini, application.properties, application.yaml
OrderAsStated ==
    << Application \o <<".", "j", "s", "o", "n">>,
       Application \o <<".", "i", "n", "i">>,
       Application \o <<".", "p", "r", "o", "p", "e", "r", "t", "i", "e", "s">>,
       Application \o <<".", "y", "a", "m", "l">> >>

\* a failure after which the next candidate is tried
PassedOver(outcome) == ~outcome.ok /\ outcome.exc \in {"ConfigException", "FileNotFoundError"}

\* the loads made follow the sequence order, each made only after the one
\* before it was passed over, and the outcome is that of the last load made
LoadsInOrder(order) ==
    /\ Len(args.calls) <= Len(order)
    /\ \A n \in 1..Len(args.calls) : args.calls[n] = order[n]
    /\ \A n \in 1..(Len(args.calls) - 1) : PassedOver(args.load[args.calls[n]])
    /\ args.calls # <<>> /\ out = args.load[args.calls[Len(args.calls)]]
    /\ PassedOver(out) => Len(args.calls) = Len(order)

\* C28: default_load tries application.json, application.ini,
\* application.properties and application.yaml in that order, moves on only
\* after a ConfigException or a FileNotFoundError, returns the first load that
\* succeeds, and loads args.config_file (when the arguments name one) only
\* after the four have failed.
C28_AsStated ==
    (op = "default_load" /\ cfg.d[<<"a", "r", "g", "s">>].d # <<>>) =>
        LoadsInOrder(Append(OrderAsStated, ConfigFile))

(***************************************************************************)
(* C29: termination of the placeholder scanner                             *)
(***************************************************************************)
\* C29: on every leaf the reference resolver accepts, also one holding a $
\* that is followed by neither $ nor {, resolve() and the resolver return a
\* value or raise an error: the call never hangs.
C29_AsStated ==
    (op = "resolve" \/ (op = "resolver.resolve" /\ test(args.value))) => out # Hang

(***************************************************************************)
(* C30: chained fallbacks                                                  *)
(***************************************************************************)
\* C30 as stated: a.with_fallback(b).with_fallback(c) equals
\* a.with_fallback(b.with_fallback(c)) for all a, b and c, also when a key
\* holds a Map in a and c and a value that is no Map in b.
C30_AsStated ==
    op = "with_fallback.chained" => out = args.grouped

\* some key path holds a Map in a and in c and a value that is no Map in b
RECURSIVE Masked(_, _, _)
Masked(a, b, c) ==
    \E key \in DOMAIN a \cap DOMAIN b \cap DOMAIN c :
        /\ a[key].t = "dict" /\ c[key].t = "dict"
        /\ b[key].t # "dict" \/ Masked(a[key].d, b[key].d, c[key].d)

\* r is what the three maps give in turn: at a key of several of them, the
\* values that are maps up to the first that is none are merged in the same
\* way, and a first value that is no map stands alone
RECURSIVE IsChainMerge(_, _, _, _)
IsChainMerge(r, a, b, c) ==
    /\ DOMAIN r = DOMAIN a \cup DOMAIN b \cup DOMAIN c
    /\ \A key \in DOMAIN r :
          LET has == <<key \in DOMAIN a, key \in DOMAIN b, key \in DOMAIN c>>
              at(m, n) == IF has[n] THEN m[key] ELSE PyNone
              map(m, n) == IF has[n] /\ m[key].t = "dict" THEN m[key].d ELSE <<>>
              first == IF has[1] THEN a[key] ELSE IF has[2] THEN b[key] ELSE c[key]
              \* the maps merged into the first value: those reached before a
              \* present value that is no map
              through2 == has[1] /\ (~has[2] \/ b[key].t = "dict")
          IN  IF first.t # "dict" THEN r[key] = first
              ELSE /\ r[key].t = "dict"
                   /\ IF has[1]
                      THEN IsChainMerge(r[key].d, a[key].d,
                                        map(b, 2),
                                        IF through2 THEN map(c, 3) ELSE <<>>)
                      ELSE IF has[2]
                      THEN IsChainMerge(r[key].d, <<>>, b[key].d, map(c, 3))
                      ELSE r[key] = c[key]

\* C30: the two groupings of a chain of fallbacks agree whenever no key path
\* holds a Map in a and c and a value that is no Map in b; the grouping
\* a.with_fallback(b.with_fallback(c)) is the merge in which a value of b
\* that is no Map hides c's Map from a's.
C30_AssociativeUnlessMasked ==
    op = "with_fallback.chained" =>
        /\ out.ok /\ args.grouped.ok
        /\ ~Masked(cfg.d, args.other.d, args.last.d) => out = args.grouped
        /\ IsChainMerge(args.grouped.v.d, cfg.d, args.other.d, args.last.d)

\* Maps of a, b and c two deep have merged alike in both groupings: b's
\* inner y has won over c's, and c's y has been added
C30_Witness ==
    /\ op = "with_fallback.chained"
    /\ cfg = Dict1(k_a, Dict1(k_k, Dict1(k_k, PyInt(1))))
    /\ args.other = Dict1(k_a, Dict1(k_k, Dict1(k_y, PyInt(2))))
    /\ args.last = Dict1(k_a, Dict2(k_k, Dict1(k_y, PyInt(3)), k_y, Dict1(k_k, PyInt(3))))
    /\ out = args.grouped
    /\ out = Return(Dict1(k_a, Dict2(k_k, Dict2(k_k, PyInt(1), k_y, PyInt(2)),
                                     k_y, Dict1(k_k, PyInt(3)))))
====
